---------------------------- MODULE Spec2Model ----------------------------
(***************************************************************************)
(* A model of the batemo_scraper field-extraction engine and of the run   *)
(* loop around it (src/scrape_cells.py, src/upload_to_postgres.py).       *)
(*                                                                         *)
(* Text is a sequence of one-character strings; Python's 0-based indices  *)
(* are kept, so text[a:b] is Slice(text, a, b).  An Optional value is the *)
(* empty sequence (None) or a one-element sequence (Some(v)).             *)
(***************************************************************************)
EXTENDS Integers, Sequences, FiniteSets, TLC

VARIABLES
    pc,             \* position: "call" / "return" of the function under study
    text,           \* the flat (normalized) text argument
    start_label,    \* extract_block: start_label
    next_labels,    \* extract_block: next_labels
    block,          \* extract_block: the returned block (Optional text)
    data,           \* parse_cell_page: the record being filled (data dict)
    label,          \* parse_range_simple: label
    unit,           \* parse_range_simple: unit (Optional text)
    range_out,      \* parse_range_simple: the returned pair
    current_out,    \* parse_current_range: the returned 4-tuple
    urls,           \* scrape_all: urls, the list load_urls returned
    idx,            \* scrape_all: the number of URLs the loop has handled
    cells,          \* table cells (SQLite), rows in insertion order
    scrape_log,     \* table scrape_log, rows in insertion order
    scrape_runs,    \* table scrape_runs, rows in insertion order
    success_count,  \* scrape_all: the four counters
    http_error_count,
    parse_error_count,
    other_error_count,
    pg_cells,       \* table batemo.cells (PostgreSQL)
    events,         \* history: the storage calls made so far
    args,           \* a call of one function on its own: its arguments
    result,         \* ... and what it returned (Optional)
    site,           \* collect_all_cell_urls: what the listing pages serve
    page,           \* collect_all_cell_urls: page
    seen,           \* collect_all_cell_urls: seen
    all_urls,       \* collect_all_cell_urls: all_urls
    mode,           \* upload_to_postgres: args.mode
    pg_scrape_runs, \* table batemo.scrape_runs (PostgreSQL)
    pg_scrape_log,  \* table batemo.scrape_log (PostgreSQL)
    pg_seq          \* the last value of each BIGSERIAL sequence

segVars == <<text, start_label, next_labels, block>>
rangeVars == <<label, unit, range_out, current_out>>
counters == <<success_count, http_error_count, parse_error_count, other_error_count>>
runVars == <<urls, idx, cells, scrape_log, scrape_runs, counters, pg_cells, events>>
fnVars == <<args, result>>
pageVars == <<site, page, seen, all_urls>>
uploadVars == <<mode, pg_scrape_runs, pg_scrape_log, pg_seq>>
vars == <<pc, segVars, data, rangeVars, runVars, fnVars, pageVars, uploadVars>>

---------------------------------------------------------------------------
(* Optional values and Python string primitives                           *)

None == <<>>
Some(v) == <<v>>
IsNone(o) == o = <<>>
IsSome(o) == o # <<>>
Get(o) == o[1]

\* the state of the segmenter while another function is under study
IdleSeg ==
    /\ text = <<>>
    /\ start_label = <<>>
    /\ next_labels = <<>>
    /\ block = None

\* the state of the range extractors while another function is under study
IdleRange ==
    /\ label = <<>>
    /\ unit = None
    /\ range_out = <<None, None>>
    /\ current_out = <<None, None, None, None>>

\* no function is called on its own
IdleFn ==
    /\ args = <<>>
    /\ result = None

\* the state of the URL collector while another function is under study
IdlePages ==
    /\ site = <<>>
    /\ page = 1
    /\ seen = {}
    /\ all_urls = <<>>

\* the state of the uploader while another function is under study
IdleUpload ==
    /\ mode = "upsert"
    /\ pg_scrape_runs = <<>>
    /\ pg_scrape_log = <<>>
    /\ pg_seq = [scrape_runs |-> 0, scrape_log |-> 0]

\* the state of the run loop and the tables before any run
IdleRun ==
    /\ urls = <<>>
    /\ idx = 0
    /\ cells = <<>>
    /\ scrape_log = <<>>
    /\ scrape_runs = <<>>
    /\ success_count = 0
    /\ http_error_count = 0
    /\ parse_error_count = 0
    /\ other_error_count = 0
    /\ pg_cells = <<>>
    /\ events = <<>>

\* text[a:b] for 0 <= a <= b <= len(text)
Slice(s, a, b) == SubSeq(s, a + 1, b)

\* sub occurs in s starting at 0-based index i
OccursAt(s, sub, i) ==
    /\ i >= 0
    /\ i + Len(sub) <= Len(s)
    /\ \A k \in 1..Len(sub) : s[i + k] = sub[k]

SetMin(S) == CHOOSE m \in S : \A x \in S : m <= x

\* str.find(sub, from): the smallest index >= from where sub occurs, else -1
find(s, sub, from) ==
    LET hits == {i \in from..(Len(s) - Len(sub)) : OccursAt(s, sub, i)}
    IN IF hits = {} THEN -1 ELSE SetMin(hits)

\* all sequences over S of length lo..hi
SeqsOf(S, lo, hi) == UNION {[1..n -> S] : n \in lo..hi}

---------------------------------------------------------------------------
(* extract_block (BlockSegmenter)                                         *)

\* the for-loop over next_labels, dropping the test j < idx_end
RECURSIVE scan_end_last(_, _, _, _)
scan_end_last(s, idx_from, labels, idx_end) ==
    IF labels = <<>> THEN idx_end
    ELSE LET j == find(s, Head(labels), idx_from)
         IN scan_end_last(s, idx_from, Tail(labels),
                          IF j # -1 THEN j ELSE idx_end)

\* the for-loop over next_labels: idx_end shrinks to the nearest hit
RECURSIVE scan_end(_, _, _, _)
scan_end(s, idx_from, labels, idx_end) ==
    IF labels = <<>> THEN idx_end
    ELSE LET j == find(s, Head(labels), idx_from)
         IN scan_end(s, idx_from, Tail(labels),
                     IF j # -1 /\ j < idx_end THEN j ELSE idx_end)

\* extract_block returning text[idx_from:idx_end] (label cut off)
extract_block_after(s, start, labels) ==
    LET idx_start == find(s, start, 0)
    IN IF idx_start = -1 THEN None
       ELSE LET idx_from == idx_start + Len(start)
                idx_end == scan_end(s, idx_from, labels, Len(s))
            IN Some(Slice(s, idx_from, idx_end))

extract_block(s, start, labels) ==
    LET idx_start == find(s, start, 0)
    IN IF idx_start = -1 THEN None
       ELSE LET idx_from == idx_start + Len(start)
                idx_end == scan_end(s, idx_from, labels, Len(s))
            IN Some(Slice(s, idx_start, idx_end))

---------------------------------------------------------------------------
(* Inputs of the segmenter runs                                           *)

MaxTextLen == 5
MaxNextLabels == 2

SegAlphabet == {"a", "b"}
\* section labels over the small alphabet; some are prefixes of others,
\* as "Energy" / "Energy Density" are in parse_cell_page
SegLabels == {<<"a">>, <<"b">>, <<"a", "b">>, <<"b", "a">>, <<"b", "b">>}

W_Capacity == <<"C", "a", "p", "a", "c", "i", "t", "y">>
W_Current == <<"C", "u", "r", "r", "e", "n", "t">>
W_nominal5Ah == <<" ", "n", "o", "m", "i", "n", "a", "l", " ", "5", " ", "A", "h", " ">>
W_continuous10A == <<" ", "c", "o", "n", "t", "i", "n", "u", "o", "u", "s", " ", "1", "0", " ", "A">>
W_dots == <<".", ".", ".">>
\* "...Capacity nominal 5 Ah Current continuous 10 A..."
SegExampleText == W_dots \o W_Capacity \o W_nominal5Ah \o W_Current \o W_continuous10A \o W_dots

InitSeg ==
    /\ IdleFn
    /\ IdlePages
    /\ IdleUpload
    /\ pc = "call"
    /\ block = None
    /\ data = None
    /\ IdleRange
    /\ IdleRun
    /\ \/ /\ text \in SeqsOf(SegAlphabet, 0, MaxTextLen)
          /\ start_label \in SegLabels
          /\ next_labels \in SeqsOf(SegLabels, 0, MaxNextLabels)
       \/ /\ text = SegExampleText
          /\ start_label = W_Capacity
          /\ next_labels \in {<<>>, <<W_Current>>, <<<<" ">> \o W_Current>>}

\* the call block = extract_block(text, start_label, next_labels)
Segment ==
    /\ pc = "call"
    /\ block' = extract_block(text, start_label, next_labels)
    /\ pc' = "return"
    /\ UNCHANGED <<text, start_label, next_labels, data, rangeVars, runVars>>
    /\ UNCHANGED <<fnVars, pageVars, uploadVars>>

NextSeg == Segment
SpecSeg == InitSeg /\ [][NextSeg]_vars

---------------------------------------------------------------------------
(* Claims C1, C2: the boundaries of the block                             *)

segStart == find(text, start_label, 0)
segOrigin == segStart + Len(start_label)

\* the smallest index at or after the search origin where a label of ls
\* occurs, and the end of the text when none does
NearestNext(s, from, ls) ==
    LET hits == {i \in from..Len(s) : \E k \in 1..Len(ls) : OccursAt(s, ls[k], i)}
    IN IF hits = {} THEN Len(s) ELSE SetMin(hits)

\* every reordering of a label list
Reorderings(ls) ==
    {[i \in 1..Len(ls) |-> ls[p[i]]] :
        p \in {q \in [1..Len(ls) -> 1..Len(ls)] :
                  \A i, j \in 1..Len(ls) : q[i] = q[j] => i = j}}

\* C1 as stated: when start_label occurs, the block is the text from the
\* index immediately after its first occurrence (label excluded) up to the
\* nearest next label; the example yields " nominal 5 Ah ".
C1_StartsAfterLabel ==
    (pc = "return" /\ segStart # -1) =>
        /\ block = Some(Slice(text, segOrigin,
                              NearestNext(text, segOrigin, next_labels)))
        /\ (text = SegExampleText /\ next_labels = <<W_Current>>)
               => block = Some(W_nominal5Ah)

\* C1 amended: when start_label occurs, the block begins at the index of
\* its first occurrence, so the block starts with the start label itself
\* and reaches at least to the search origin; the example yields
\* "Capacity nominal 5 Ah ".
C1_StartsAtLabel ==
    (pc = "return" /\ segStart # -1) =>
        /\ IsSome(block)
        /\ \E e \in segOrigin..Len(text) : Get(block) = Slice(text, segStart, e)
        /\ (text = SegExampleText /\ next_labels = <<W_Current>>)
               => Get(block) = W_Capacity \o W_nominal5Ah

\* the example call has returned
C1_Witness ==
    /\ pc = "return"
    /\ text = SegExampleText
    /\ start_label = W_Capacity
    /\ next_labels = <<W_Current>>
    /\ IsSome(block)

\* C2: the block is absent exactly when start_label does not occur;
\* otherwise it ends (exclusive) at the smallest index at or after the
\* search origin where any next label occurs, at the end of the text when
\* none occurs; the result is the same for every order of next_labels; no
\* next label starts inside the block at or after the search origin.
C2_EndBoundary ==
    pc = "return" =>
        IF segStart = -1 THEN block = None
        ELSE /\ IsSome(block)
             /\ segStart + Len(Get(block))
                    = NearestNext(text, segOrigin, next_labels)
             /\ (next_labels = <<>> => segStart + Len(Get(block)) = Len(text))
             /\ \A ls \in Reorderings(next_labels) :
                    extract_block(text, start_label, ls) = block
             /\ \A i \in segOrigin..(segStart + Len(Get(block)) - 1) :
                    \A k \in 1..Len(next_labels) :
                        ~OccursAt(text, next_labels[k], i)

\* two next labels occur after the origin, the farther one listed last,
\* and the block stops at the nearer one, before the end of the text
C2_Witness ==
    /\ pc = "return"
    /\ IsSome(block)
    /\ Len(next_labels) = 2
    /\ find(text, next_labels[1], segOrigin) # -1
    /\ find(text, next_labels[2], segOrigin)
           > find(text, next_labels[1], segOrigin)
    /\ segStart + Len(Get(block)) < Len(text)
    /\ segStart + Len(Get(block)) > segOrigin

---------------------------------------------------------------------------
(* Numbers.  A float is modelled as an exact rational [num, den] in       *)
(* lowest terms with den > 0; rounding is not modelled.                   *)

Abs(n) == IF n < 0 THEN -n ELSE n

RECURSIVE GCD(_, _)
GCD(a, b) == IF b = 0 THEN a ELSE GCD(b, a % b)

\* n/d in lowest terms, for d # 0
Rat(n, d) ==
    LET g == GCD(Abs(n), Abs(d))
        sg == IF d < 0 THEN -1 ELSE 1
    IN [num |-> (sg * n) \div g, den |-> (sg * d) \div g]

Num(n) == Rat(n, 1)

\* what a / 0.0 produces: Python raises ZeroDivisionError
ZeroDivisionError == [num |-> 0, den |-> 0]

RSub(a, b) == Rat(a.num * b.den - b.num * a.den, a.den * b.den)
RMul(a, b) == Rat(a.num * b.num, a.den * b.den)
RDiv(a, b) == IF b.num = 0 THEN ZeroDivisionError
              ELSE Rat(a.num * b.den, a.den * b.num)
RPos(a) == a.num > 0

\* truth value of an Optional[float] in "if x and y": None and 0.0 are false
Truthy(o) == IsSome(o) /\ Get(o).num # 0

---------------------------------------------------------------------------
(* DerivedMetricsCalculator: the tail of parse_cell_page                  *)

\* mean voltage guarded by "is not None" instead of truthiness
mean_voltage_present(quantity, per) ==
    IF IsSome(per) /\ IsSome(quantity) THEN Some(RDiv(Get(quantity), Get(per)))
    ELSE None

\* mean_v_c10 = c10_energy / c10_cap, mean_v_peak = peak_power / peak_current
mean_voltage(quantity, per) ==
    IF Truthy(per) /\ Truthy(quantity) THEN Some(RDiv(Get(quantity), Get(per)))
    ELSE None

\* r_eff without the test dv > 0
r_eff_unguarded(mean_v_c10, mean_v_peak, peak_current) ==
    IF Truthy(mean_v_c10) /\ Truthy(mean_v_peak) /\ Truthy(peak_current)
    THEN Some(RDiv(RMul(Num(1000), RSub(Get(mean_v_c10), Get(mean_v_peak))),
                   Get(peak_current)))
    ELSE None

r_eff(mean_v_c10, mean_v_peak, peak_current) ==
    IF Truthy(mean_v_c10) /\ Truthy(mean_v_peak) /\ Truthy(peak_current)
    THEN LET dv == RSub(Get(mean_v_c10), Get(mean_v_peak))
         IN IF RPos(dv)
            THEN Some(RDiv(RMul(Num(1000), dv), Get(peak_current)))
            ELSE None
    ELSE None

\* c_rate guarded on the numerator only
c_rate_unguarded(nominal_cap, current) ==
    IF IsSome(nominal_cap) /\ Truthy(current)
    THEN Some(RDiv(Get(current), Get(nominal_cap)))
    ELSE None

\* c_rate_cont = cont_current / nominal_cap, c_rate_peak = peak_current / nominal_cap
c_rate(nominal_cap, current) ==
    IF Truthy(nominal_cap) /\ Truthy(current)
    THEN Some(RDiv(Get(current), Get(nominal_cap)))
    ELSE None

PrimaryFields == {"c10_capacity_Ah", "c10_energy_Wh", "peak_power_W",
                  "peak_current_A", "nominal_capacity_Ah", "continuous_current_A"}
DerivedFields == {"mean_voltage_c10_V", "mean_voltage_peak_V", "r_eff_mOhm",
                  "c_rate_continuous", "c_rate_peak"}

\* the derived section: reads the six primaries, writes the five derived
derive(d) ==
    LET mean_v_c10 == mean_voltage(d["c10_energy_Wh"], d["c10_capacity_Ah"])
        mean_v_peak == mean_voltage(d["peak_power_W"], d["peak_current_A"])
    IN [f \in PrimaryFields \cup DerivedFields |->
          CASE f = "mean_voltage_c10_V" -> mean_v_c10
            [] f = "mean_voltage_peak_V" -> mean_v_peak
            [] f = "r_eff_mOhm" -> r_eff(mean_v_c10, mean_v_peak, d["peak_current_A"])
            [] f = "c_rate_continuous" ->
                   c_rate(d["nominal_capacity_Ah"], d["continuous_current_A"])
            [] f = "c_rate_peak" ->
                   c_rate(d["nominal_capacity_Ah"], d["peak_current_A"])
            [] OTHER -> d[f]]

MaxVal == 3

\* what parse_first_float can return for a primary: absent, or a number
\* without sign (its patterns capture [0-9]+(\.[0-9]+)? only)
PrimaryValues == {None} \cup {Some(Num(n)) : n \in 0..MaxVal}

\* mean_v_c10 = 3.0 and mean_v_peak = 3.5
GuardExample ==
    [f \in PrimaryFields \cup DerivedFields |->
        CASE f = "c10_energy_Wh" -> Some(Num(3))
          [] f = "c10_capacity_Ah" -> Some(Num(1))
          [] f = "peak_power_W" -> Some(Num(7))
          [] f = "peak_current_A" -> Some(Num(2))
          [] OTHER -> None]

InitDerive ==
    /\ IdleFn
    /\ IdlePages
    /\ IdleUpload
    /\ pc = "call"
    /\ IdleSeg
    /\ IdleRange
    /\ IdleRun
    /\ \/ \E p \in [PrimaryFields -> PrimaryValues] :
             data = [f \in PrimaryFields \cup DerivedFields |->
                        IF f \in PrimaryFields THEN p[f] ELSE None]
       \/ data = GuardExample

\* lines 303-336 of parse_cell_page
Derive ==
    /\ pc = "call"
    /\ data' = derive(data)
    /\ pc' = "return"
    /\ UNCHANGED <<segVars, rangeVars, runVars>>
    /\ UNCHANGED <<fnVars, pageVars, uploadVars>>

NextDerive == Derive
SpecDerive == InitDerive /\ [][NextDerive]_vars

---------------------------------------------------------------------------
(* Claims C6, C7, C8: the derived metrics                                 *)

\* quantity / per when both are present and per is nonzero, else absent
RatioOrAbsent(quantity, per) ==
    IF IsSome(quantity) /\ IsSome(per) /\ Get(per).num # 0
    THEN Some(RDiv(Get(quantity), Get(per)))
    ELSE None

\* C6: r_eff_mOhm is present if and only if both mean voltages are present
\* and mean_v_c10 - mean_v_peak is strictly positive; it then equals
\* 1000 * difference / peak_current; so it is absent or strictly positive.
C6_REffGuard ==
    pc = "return" =>
        LET mv10 == data["mean_voltage_c10_V"]
            mvp == data["mean_voltage_peak_V"]
            r == data["r_eff_mOhm"]
        IN /\ IsSome(r) <=> (/\ IsSome(mv10)
                             /\ IsSome(mvp)
                             /\ RPos(RSub(Get(mv10), Get(mvp))))
           /\ IsSome(r) =>
                 /\ Get(r) = RDiv(RMul(Num(1000), RSub(Get(mv10), Get(mvp))),
                                  Get(data["peak_current_A"]))
                 /\ RPos(Get(r))

\* mean_v_c10 = 3.0 and mean_v_peak = 3.5 were derived: the difference is
\* negative and r_eff_mOhm was left absent
C6_Witness ==
    /\ pc = "return"
    /\ data["mean_voltage_c10_V"] = Some(Num(3))
    /\ data["mean_voltage_peak_V"] = Some(Rat(7, 2))
    /\ data["r_eff_mOhm"] = None

\* C7: mean_voltage_c10_V equals c10_energy / c10_capacity whenever both
\* are present and the capacity is nonzero (also for an energy of 0), and
\* is absent otherwise; likewise mean_voltage_peak_V equals
\* peak_power / peak_current.
C7_MeanVoltage ==
    pc = "return" =>
        /\ data["mean_voltage_c10_V"]
               = RatioOrAbsent(data["c10_energy_Wh"], data["c10_capacity_Ah"])
        /\ data["mean_voltage_peak_V"]
               = RatioOrAbsent(data["peak_power_W"], data["peak_current_A"])

\* C8: c_rate_continuous and c_rate_peak are each present exactly when
\* both operands are present and nominal_capacity is nonzero (a numerator
\* of 0 gives a present ratio 0), and no division by zero is attempted.
C8_CRate ==
    pc = "return" =>
        /\ data["c_rate_continuous"]
               = RatioOrAbsent(data["continuous_current_A"], data["nominal_capacity_Ah"])
        /\ data["c_rate_peak"]
               = RatioOrAbsent(data["peak_current_A"], data["nominal_capacity_Ah"])
        /\ \A f \in DerivedFields : data[f] # Some(ZeroDivisionError)

---------------------------------------------------------------------------
(* Regular expressions as re.search runs them.  A pattern is a sequence   *)
(* of items [cls, min, max, grp]: between min and max characters of the   *)
(* class cls, greedy, inside capture group grp (0: none).  Matching       *)
(* backtracks the way the re module does: the leftmost start, and at each *)
(* item the longest run first.                                            *)

Unbounded == 1000000

Digits == {"0", "1", "2", "3", "4", "5", "6", "7", "8", "9"}
\* the one character NO-BREAK SPACE
NoBreakSpace == "U+00A0"
\* \s, and the characters str.strip() removes
Whitespace == {" ", "\t", "\n", "\r", "\f", NoBreakSpace}
\* the one character HORIZONTAL ELLIPSIS (module text is ASCII)
Ellipsis == "U+2026"
\* [.U+2026]
DotOrEllipsis == {".", Ellipsis}
\* [-0-9.,]
NumberChars == Digits \cup {"-", ".", ","}

Item(cls, min, max, grp) == [cls |-> cls, min |-> min, max |-> max, grp |-> grp]
\* re.escape(word): every character of word, literally
Lit(word) == [i \in 1..Len(word) |-> Item({word[i]}, 1, 1, 0)]
Star(cls) == <<Item(cls, 0, Unbounded, 0)>>
Plus(cls) == <<Item(cls, 1, Unbounded, 0)>>
InGroup(items, g) == [i \in 1..Len(items) |-> [items[i] EXCEPT !.grp = g]]

\* the number of characters of cls at s[pos:], at most cap
RECURSIVE run_length(_, _, _, _)
run_length(s, cls, pos, cap) ==
    IF cap = 0 \/ pos >= Len(s) \/ s[pos + 1] \notin cls THEN 0
    ELSE 1 + run_length(s, cls, pos + 1, cap - 1)

\* items k.. matched at pos: the end index of every item, or None
RECURSIVE match_items(_, _, _, _)
RECURSIVE match_item_len(_, _, _, _, _)
match_items(s, items, k, pos) ==
    IF k > Len(items) THEN Some(<<>>)
    ELSE match_item_len(s, items, k, pos,
                        run_length(s, items[k].cls, pos, items[k].max))

match_item_len(s, items, k, pos, n) ==
    IF n < items[k].min THEN None
    ELSE LET rest == match_items(s, items, k + 1, pos + n)
         IN IF IsSome(rest) THEN Some(<<pos + n>> \o Get(rest))
            ELSE match_item_len(s, items, k, pos, n - 1)

\* the first of the starts with a match, and where that match ends; ends
\* maps every start to the end of the match from there, or None
leftmost(ends) ==
    LET hits == {st \in DOMAIN ends : IsSome(ends[st])}
    IN IF hits = {} THEN None
       ELSE Some([start |-> SetMin(hits), ends |-> Get(ends[SetMin(hits)])])

\* re.search(pattern, s): the match at the leftmost start, or None
search_from(s, items, start) ==
    leftmost([st \in start..Len(s) |-> match_items(s, items, 1, st)])

search(items, s) == search_from(s, items, 0)

\* m.group(g) of a match m of items in s
group(s, items, m, g) ==
    LET ks == {k \in 1..Len(items) : items[k].grp = g}
        first == SetMin(ks)
        last == CHOOSE k \in ks : \A j \in ks : j <= k
        from == IF first = 1 THEN m.start ELSE m.ends[first - 1]
    IN Slice(s, from, m.ends[last])

---------------------------------------------------------------------------
(* to_float (NumericParser)                                               *)

\* str.strip()
RECURSIVE lstrip(_)
lstrip(s) == IF s # <<>> /\ Head(s) \in Whitespace THEN lstrip(Tail(s)) ELSE s
RECURSIVE rstrip(_)
rstrip(s) ==
    IF s # <<>> /\ s[Len(s)] \in Whitespace THEN rstrip(SubSeq(s, 1, Len(s) - 1))
    ELSE s
strip(s) == rstrip(lstrip(s))

\* str.replace(",", ".")
comma_to_point(s) == [i \in 1..Len(s) |-> IF s[i] = "," THEN "." ELSE s[i]]

DigitValue(c) ==
    CASE c = "0" -> 0 [] c = "1" -> 1 [] c = "2" -> 2 [] c = "3" -> 3
      [] c = "4" -> 4 [] c = "5" -> 5 [] c = "6" -> 6 [] c = "7" -> 7
      [] c = "8" -> 8 [] c = "9" -> 9

RECURSIVE digits_value(_)
digits_value(ds) ==
    IF ds = <<>> THEN 0
    ELSE 10 * digits_value(SubSeq(ds, 1, Len(ds) - 1)) + DigitValue(ds[Len(ds)])

RECURSIVE Pow10(_)
Pow10(n) == IF n = 0 THEN 1 ELSE 10 * Pow10(n - 1)

\* the floats that are no rationals
float_nan == [special |-> "nan"]
float_inf(negative) == [special |-> IF negative THEN "-inf" ELSE "inf"]

\* float() takes "_" between two digits only
underscores_ok(s) ==
    \A k \in 1..Len(s) :
        s[k] = "_" => /\ k > 1 /\ s[k - 1] \in Digits
                      /\ k < Len(s) /\ s[k + 1] \in Digits

RECURSIVE without_underscores(_)
without_underscores(s) ==
    IF s = <<>> THEN <<>>
    ELSE IF Head(s) = "_" THEN without_underscores(Tail(s))
    ELSE <<Head(s)>> \o without_underscores(Tail(s))

\* the value of ip digits, a point or none, and fp digits that make up
\* all of body; None when something else is in body or no digit is
float_of_digits(body, negative, ip, dotted, fp) ==
    IF ip + (IF dotted THEN 1 ELSE 0) + fp = Len(body) /\ ip + fp > 0
    THEN Some(Rat((IF negative THEN -1 ELSE 1)
                      * (digits_value(SubSeq(body, 1, ip)) * Pow10(fp)
                           + digits_value(SubSeq(body, ip + 2, ip + 1 + fp))),
                  Pow10(fp)))
    ELSE None

\* the digits after the ip digits before the point
float_of_fraction(body, negative, ip, dotted) ==
    float_of_digits(body, negative, ip, dotted,
                    IF dotted THEN run_length(body, Digits, ip + 1, Len(body)) ELSE 0)

\* the digits before the point
float_of_integer(body, negative, ip) ==
    float_of_fraction(body, negative, ip, ip < Len(body) /\ body[ip + 1] = ".")

\* the literal after its sign
float_of_body(body, negative) ==
    IF body = <<"n", "a", "n">> THEN Some(float_nan)
    ELSE IF body \in {<<"i", "n", "f">>,
                      <<"i", "n", "f", "i", "n", "i", "t", "y">>}
    THEN Some(float_inf(negative))
    ELSE float_of_integer(body, negative, run_length(body, Digits, 0, Len(body)))

\* the literal with its sign
float_of_signed(s) ==
    IF s # <<>> /\ s[1] \in {"-", "+"} THEN float_of_body(Tail(s), s[1] = "-")
    ELSE float_of_body(s, FALSE)

\* the literal without blanks around it
float_of_stripped(s1) ==
    IF ~underscores_ok(s1) THEN None ELSE float_of_signed(without_underscores(s1))

\* float(s): blanks around the literal are skipped, then
\* [+-]? (digits [. digits*] | . digits), with "_" between digits, or
\* [+-]? (inf | infinity | nan); None where float() raises ValueError.
\* Exponents and upper-case letters need characters no input of the model
\* contains.
parse_float(s0) == float_of_stripped(strip(s0))

\* to_float without the conversion of the decimal comma
to_float_point_only(value) ==
    IF IsNone(value) \/ Get(value) = <<>> THEN None
    ELSE parse_float(strip(Get(value)))

to_float(value) ==
    IF IsNone(value) \/ Get(value) = <<>> THEN None
    ELSE parse_float(comma_to_point(strip(Get(value))))

---------------------------------------------------------------------------
(* RangeExtractor: parse_range_simple and parse_current_range             *)

\* label\s*([-0-9.,]+)\s*[.U+2026]+\s*([-0-9.,]+)   and, "if unit:",   \s*unit
range_pattern(lbl, u) ==
    Lit(lbl) \o Star(Whitespace) \o InGroup(Plus(NumberChars), 1)
        \o Star(Whitespace) \o Plus(DotOrEllipsis) \o Star(Whitespace)
        \o InGroup(Plus(NumberChars), 2)
        \o (IF IsSome(u) /\ Get(u) # <<>> THEN Star(Whitespace) \o Lit(Get(u))
            ELSE <<>>)

\* parse_range_simple returning the pair only when both numerals parse
parse_range_simple_strict(s, lbl, u) ==
    LET items == range_pattern(lbl, u)
        m == search(items, s)
    IN IF IsNone(m) THEN <<None, None>>
       ELSE LET lo == to_float(Some(group(s, items, Get(m), 1)))
                hi == to_float(Some(group(s, items, Get(m), 2)))
            IN IF IsSome(lo) /\ IsSome(hi) THEN <<lo, hi>> ELSE <<None, None>>

parse_range_simple(s, lbl, u) ==
    LET items == range_pattern(lbl, u)
        m == search(items, s)
    IN IF IsNone(m) THEN <<None, None>>
       ELSE <<to_float(Some(group(s, items, Get(m), 1))),
              to_float(Some(group(s, items, Get(m), 2)))>>

\* (-?\d+\.?\d*) as capture group g
signed_decimal(g) ==
    <<Item({"-"}, 0, 1, g), Item(Digits, 1, Unbounded, g),
      Item({"."}, 0, 1, g), Item(Digits, 0, Unbounded, g)>>

W_discharge == <<"d", "i", "s", "c", "h", "a", "r", "g", "e">>
W_charge == <<"c", "h", "a", "r", "g", "e">>

\* (-?\d+\.?\d*)\s*A\s*discharge\s*[.U+2026]+\s*(\-?\d+\.?\d*)\s*A\s*charge
current_pattern ==
    signed_decimal(1) \o Star(Whitespace) \o Lit(<<"A">>) \o Star(Whitespace)
        \o Lit(W_discharge) \o Star(Whitespace) \o Plus(DotOrEllipsis)
        \o Star(Whitespace) \o signed_decimal(2) \o Star(Whitespace)
        \o Lit(<<"A">>) \o Star(Whitespace) \o Lit(W_charge)

\* \(\s*(-?\d+\.?\d*)\s*C\s*[.U+2026]+\s*(\-?\d+\.?\d*)\s*C\s*\)
c_rate_pattern ==
    Lit(<<"(">>) \o Star(Whitespace) \o signed_decimal(1) \o Star(Whitespace)
        \o Lit(<<"C">>) \o Star(Whitespace) \o Plus(DotOrEllipsis)
        \o Star(Whitespace) \o signed_decimal(2) \o Star(Whitespace)
        \o Lit(<<"C">>) \o Star(Whitespace) \o Lit(<<")">>)

\* the two groups of a search as floats, (None, None) without a match
two_floats(s, items) ==
    LET m == search(items, s)
    IN IF IsNone(m) THEN <<None, None>>
       ELSE <<to_float(Some(group(s, items, Get(m), 1))),
              to_float(Some(group(s, items, Get(m), 2)))>>

\* parse_current_range looking for the C-rates only after the currents matched
parse_current_range_joint(s) ==
    LET i == two_floats(s, current_pattern)
        c == IF IsSome(i[1]) THEN two_floats(s, c_rate_pattern) ELSE <<None, None>>
    IN <<i[1], i[2], c[1], c[2]>>

parse_current_range(s) ==
    LET i == two_floats(s, current_pattern)
        c == two_floats(s, c_rate_pattern)
    IN <<i[1], i[2], c[1], c[2]>>

---------------------------------------------------------------------------
(* Inputs of the range extractor runs                                     *)

MaxBodyLen == 4

RangeAlphabet == {"2", ".", ",", "-", " "}

\* "State of Charge Range", "Voltage Range": the labels of parse_cell_page
W_SoCRange == <<"S", "t", "a", "t", "e", " ", "o", "f", " ", "C", "h", "a", "r", "g", "e", " ", "R", "a", "n", "g", "e">>
W_VoltageRange == <<"V", "o", "l", "t", "a", "g", "e", " ", "R", "a", "n", "g", "e">>
\* "State of Charge Range 0 U+2026 100%"
SoCExampleText == W_SoCRange \o <<" ", "0", " ", Ellipsis, " ", "1", "0", "0", "%">>
\* "Voltage Range 2.5 U+2026 4.2 V" and "Voltage Range 2.5...4.2 V"
VoltageExampleText == W_VoltageRange \o <<" ", "2", ".", "5", " ", Ellipsis, " ", "4", ".", "2", " ", "V">>
VoltageDotsText == W_VoltageRange \o <<" ", "2", ".", "5", ".", ".", ".", "4", ".", "2", " ", "V">>

\* "-90 A discharge U+2026 12 A charge (-30C U+2026 4C)"
CurrentExampleText == <<"-", "9", "0", " ", "A", " ", "d", "i", "s", "c", "h", "a", "r", "g", "e", " ", Ellipsis, " ", "1", "2", " ", "A", " ", "c", "h", "a", "r", "g", "e", " ", "(", "-", "3", "0", "C", " ", Ellipsis, " ", "4", "C", ")">>

\* the pieces of a current line, some of them malformed
NumeralForms == {<<"-", "9", "0">>, <<"1", "2">>, <<"4", ".", "5">>, <<"7", ".">>, <<"-">>, <<>>}
SeparatorForms == {<<Ellipsis>>, <<".", ".", ".">>, <<" ", Ellipsis, " ">>, <<>>}
CurrentLines ==
    {a \o <<" ", "A", " ", "d", "i", "s", "c", "h", "a", "r", "g", "e">> \o sep \o b \o tail :
        a \in NumeralForms, sep \in SeparatorForms, b \in NumeralForms,
        tail \in {<<" ", "A", " ", "c", "h", "a", "r", "g", "e">>, <<"A", " ", "c", "h", "a", "r", "g", "e">>, <<" ", "A">>}}
CRateLines ==
    {open \o a \o <<"C">> \o sep \o b \o close :
        open \in {<<"(">>, <<"(", " ">>, <<>>}, a \in NumeralForms, sep \in SeparatorForms,
        b \in NumeralForms, close \in {<<"C", ")">>, <<" ", "C", " ", ")">>, <<"C">>}}
CurrentRangeTexts ==
    {CurrentExampleText}
      \cup {l \o c : l \in CurrentLines, c \in {<<>>, <<" ", "(", "-", "3", "0", "C", " ", Ellipsis, " ", "4", "C", ")">>}}
      \cup {l \o c : l \in {<<>>, <<"-", "9", "0", " ", "A", " ", "d", "i", "s", "c", "h", "a", "r", "g", "e", " ", Ellipsis, " ", "1", "2", " ", "A", " ", "c", "h", "a", "r", "g", "e", " ">>}, c \in CRateLines}

InitRange ==
    /\ IdleFn
    /\ IdlePages
    /\ IdleUpload
    /\ pc = "call"
    /\ start_label = <<>>
    /\ next_labels = <<>>
    /\ block = None
    /\ data = None
    /\ IdleRun
    /\ range_out = <<None, None>>
    /\ current_out = <<None, None, None, None>>
    /\ \/ /\ label = <<"R">>
          /\ unit \in {None, Some(<<"V">>)}
          /\ \E pre \in {<<>>, <<"R">>}, post \in {<<>>, <<"V">>},
                body \in SeqsOf(RangeAlphabet, 0, MaxBodyLen) :
                text = pre \o body \o post
       \/ /\ label = W_SoCRange /\ unit = Some(<<"%">>) /\ text = SoCExampleText
       \/ /\ label = W_VoltageRange
          /\ unit = Some(<<"V">>)
          /\ text \in {VoltageExampleText, VoltageDotsText} \cup CurrentRangeTexts

\* the call range_out = parse_range_simple(text, label, unit)
ParseRangeSimple ==
    /\ pc = "call"
    /\ range_out' = parse_range_simple(text, label, unit)
    /\ pc' = "return_range"
    /\ UNCHANGED <<segVars, data, label, unit, current_out, runVars>>
    /\ UNCHANGED <<fnVars, pageVars, uploadVars>>

\* the call current_out = parse_current_range(text)
ParseCurrentRange ==
    /\ pc = "call"
    /\ current_out' = parse_current_range(text)
    /\ pc' = "return_current"
    /\ UNCHANGED <<segVars, data, label, unit, range_out, runVars>>
    /\ UNCHANGED <<fnVars, pageVars, uploadVars>>

NextRange == ParseRangeSimple \/ ParseCurrentRange
SpecRange == InitRange /\ [][NextRange]_vars

---------------------------------------------------------------------------
(* Claims C9, C10: the range extractors                                   *)

\* C9: parse_range_simple returns two present numbers or (None, None),
\* never a pair with exactly one side present; for
\* "Voltage Range 2.5...4.2 V" too.
C9_AllOrNothing ==
    pc = "return_range" => (IsSome(range_out[1]) <=> IsSome(range_out[2]))

\* C10: in the result of parse_current_range the current pair is present
\* exactly when the current sub-pattern matches and the C-rate pair exactly
\* when the parenthetical sub-pattern matches, whatever the other does;
\* within each pair both values are present or both absent; the example
\* line yields (-90.0, 12.0, -30.0, 4.0).
C10_CurrentRange ==
    pc = "return_current" =>
        /\ IsSome(current_out[1]) <=> IsSome(current_out[2])
        /\ IsSome(current_out[3]) <=> IsSome(current_out[4])
        /\ IsSome(current_out[1]) <=> IsSome(search(current_pattern, text))
        /\ IsSome(current_out[3]) <=> IsSome(search(c_rate_pattern, text))
        /\ text = CurrentExampleText =>
               current_out = <<Some(Num(-90)), Some(Num(12)),
                               Some(Num(-30)), Some(Num(4))>>

\* a line whose currents were found while its C-rates were not, and some
\* other line for which it is the other way round
C10_Witness ==
    /\ pc = "return_current"
    /\ IsSome(current_out[1]) /\ IsSome(current_out[2])
    /\ IsNone(current_out[3]) /\ IsNone(current_out[4])
    /\ \E t \in CurrentRangeTexts :
          LET r == parse_current_range(t)
          IN IsNone(r[1]) /\ IsNone(r[2]) /\ IsSome(r[3]) /\ IsSome(r[4])

---------------------------------------------------------------------------
(* normalize_whitespace                                                   *)

\* re.sub(r"\s", " ", text): every whitespace character becomes a space
re_sub_each(s) == [k \in 1..Len(s) |-> IF s[k] \in Whitespace THEN " " ELSE s[k]]

\* re.sub(r"\s+", " ", text): every maximal whitespace run becomes a space
\* (the first character of the run does, the others go)
re_sub_runs(s) ==
    LET marked == [k \in 1..Len(s) |->
                      IF s[k] \notin Whitespace THEN s[k]
                      ELSE IF k = 1 \/ s[k - 1] \notin Whitespace THEN " "
                      ELSE ""]
        kept(c) == c # ""
    IN SelectSeq(marked, kept)

\* the substitution of single characters in place of runs
normalize_whitespace_each(s) == strip(re_sub_each(s))

normalize_whitespace(s) == strip(re_sub_runs(s))

---------------------------------------------------------------------------
(* extract_label_value (LabelValueExtractor)                              *)
(* A document is a sequence of elements; an element is a sequence of      *)
(* items, each a text node (kind "text") or a child element holding one   *)
(* text node (kind "elem").                                               *)

\* the text nodes in document order, each with its parent: <<e>> is
\* element e, <<e, k>> the child element at item k of element e
strings(soup) ==
    LET RECURSIVE of_items(_, _, _)
        of_items(e, items, k) ==
            IF k > Len(items) THEN <<>>
            ELSE <<[s |-> items[k].s,
                    parent |-> IF items[k].kind = "text" THEN <<e>> ELSE <<e, k>>]>>
                 \o of_items(e, items, k + 1)
        RECURSIVE of_elems(_)
        of_elems(e) ==
            IF e > Len(soup) THEN <<>>
            ELSE of_items(e, soup[e], 1) \o of_elems(e + 1)
    IN of_elems(1)

\* re.compile("^" + re.escape(label_prefix)).search(s): the anchor holds
\* at index 0 only
matches_prefix(s, label_prefix) == OccursAt(s, label_prefix, 0)

\* " ".join of the stripped, non-empty strings
RECURSIVE join_stripped(_)
join_stripped(ss) ==
    IF ss = <<>> THEN <<>>
    ELSE LET h == strip(Head(ss))
             t == join_stripped(Tail(ss))
         IN IF h = <<>> THEN t
            ELSE IF t = <<>> THEN h
            ELSE h \o <<" ">> \o t

\* parent.get_text(" ", strip=True): the strings below the parent
get_text(soup, parent) ==
    LET items == soup[parent[1]]
    IN IF Len(parent) = 1
       THEN join_stripped([k \in 1..Len(items) |-> items[k].s])
       ELSE join_stripped(<<items[parent[2]].s>>)

\* str.replace(old, "", 1)
replace_first(full, old) ==
    LET i == find(full, old, 0)
    IN IF i < 0 THEN full
       ELSE Slice(full, 0, i) \o Slice(full, i + Len(old), Len(full))

\* the rest of the function once the node is found (or not)
value_of_node(soup, label_prefix, hits, nodes) ==
    IF hits = {} THEN None
    ELSE LET node == nodes[SetMin(hits)]
             full == get_text(soup, node.parent)
             value == strip(replace_first(full, label_prefix))
         IN IF node.s = <<>> \/ value = <<>> THEN None ELSE Some(value)

extract_label_value(soup, label_prefix) ==
    LET nodes == strings(soup)
        hits == {k \in 1..Len(nodes) : matches_prefix(nodes[k].s, label_prefix)}
    IN value_of_node(soup, label_prefix, hits, nodes)

---------------------------------------------------------------------------
(* parse_cell_page: the patterns of the numeric fields                    *)

LowerLetters == <<"a", "b", "c", "d", "e", "f", "g", "h", "i", "j", "k", "l", "m", "n", "o", "p", "q", "r", "s", "t", "u", "v", "w", "x", "y", "z">>
UpperLetters == <<"A", "B", "C", "D", "E", "F", "G", "H", "I", "J", "K", "L", "M", "N", "O", "P", "Q", "R", "S", "T", "U", "V", "W", "X", "Y", "Z">>
\* [A-Za-z]
Letters == {LowerLetters[k] : k \in 1..26} \cup {UpperLetters[k] : k \in 1..26}
\* \w, as far as ASCII goes
WordChars == Letters \cup Digits \cup {"_"}

\* a pattern with optional groups is the sequence of its alternatives,
\* the one with the group first.  re.search takes the leftmost start and,
\* among the alternatives matching there, the first.
search_alternatives(alts, s) ==
    LET found == {a \in 1..Len(alts) : IsSome(search(alts[a], s))}
        start(a) == Get(search(alts[a], s)).start
        best == CHOOSE a \in found :
                    \A b \in found : start(a) < start(b) \/ (start(a) = start(b) /\ a <= b)
    IN IF found = {} THEN None
       ELSE Some([items |-> alts[best], m |-> Get(search(alts[best], s))])

\* ([0-9]+(?:\.[0-9]+)?) as capture group g: with the fraction, without
decimal_with_fraction(g) ==
    <<Item(Digits, 1, Unbounded, g), Item({"."}, 1, 1, g), Item(Digits, 1, Unbounded, g)>>
decimal_without_fraction(g) == <<Item(Digits, 1, Unbounded, g)>>

\* prefix \s* ([0-9]+(?:\.[0-9]+)?) \s* unit
field_pattern(prefix, field_unit) ==
    <<prefix \o Star(Whitespace) \o decimal_with_fraction(1)
          \o Star(Whitespace) \o Lit(field_unit),
      prefix \o Star(Whitespace) \o decimal_without_fraction(1)
          \o Star(Whitespace) \o Lit(field_unit)>>

W_nominal == <<"n", "o", "m", "i", "n", "a", "l">>
W_C10 == <<"C", "/", "1", "0">>
W_contin == <<"c", "o", "n", "t", "i", "n">>
W_peak == <<"p", "e", "a", "k">>
W_gravi == <<"g", "r", "a", "v", "i">>
W_volumetric == <<"v", "o", "l", "u", "m", "e", "t", "r", "i", "c">>

\* the prefixes of the eleven patterns; contin\w* and gravi\w*
prefix_nominal == Lit(W_nominal)
prefix_C10 == Lit(W_C10)
prefix_contin == Lit(W_contin) \o Star(WordChars)
prefix_peak == Lit(W_peak)
prefix_gravi == Lit(W_gravi) \o Star(WordChars)
prefix_volumetric == Lit(W_volumetric)

\* parse_first_float: None for an absent or empty text and without a
\* match, else to_float of group 1
parse_first_float(pattern_text, alts) ==
    IF IsNone(pattern_text) \/ Get(pattern_text) = <<>> THEN None
    ELSE LET m == search_alternatives(alts, Get(pattern_text))
         IN IF IsNone(m) THEN None
            ELSE to_float(Some(group(Get(pattern_text), Get(m).items, Get(m).m, 1)))

\* the one character MULTIPLICATION SIGN
TimesSign == "U+00D7"

\* ([0-9]+(?:\.[0-9]+)?)\s*[xU+00D7]\s*([0-9]+(?:\.[0-9]+)?)
dimension_pattern ==
    LET mid == Star(Whitespace) \o <<Item({"x", TimesSign}, 1, 1, 0)>> \o Star(Whitespace)
    IN <<decimal_with_fraction(1) \o mid \o decimal_with_fraction(2),
         decimal_with_fraction(1) \o mid \o decimal_without_fraction(2),
         decimal_without_fraction(1) \o mid \o decimal_with_fraction(2),
         decimal_without_fraction(1) \o mid \o decimal_without_fraction(2)>>

\* diameter_mm and height_mm from dimensions_raw
parse_dimensions(dim_raw) ==
    IF IsNone(dim_raw) \/ Get(dim_raw) = <<>> THEN <<None, None>>
    ELSE LET m_dim == search_alternatives(dimension_pattern, Get(dim_raw))
         IN IF IsNone(m_dim) THEN <<None, None>>
            ELSE <<to_float(Some(group(Get(dim_raw), Get(m_dim).items, Get(m_dim).m, 1))),
                   to_float(Some(group(Get(dim_raw), Get(m_dim).items, Get(m_dim).m, 2)))>>

\* ([0-9]+(?:\.[0-9]+)?)\s*g
weight_pattern ==
    <<decimal_with_fraction(1) \o Star(Whitespace) \o Lit(<<"g">>),
      decimal_without_fraction(1) \o Star(Whitespace) \o Lit(<<"g">>)>>

\* weight_g from the value of the label "Weight"
parse_weight(weight_raw) ==
    IF IsNone(weight_raw) \/ Get(weight_raw) = <<>> THEN None
    ELSE LET m_w == search_alternatives(weight_pattern, Get(weight_raw))
         IN IF IsSome(m_w)
            THEN to_float(Some(group(Get(weight_raw), Get(m_w).items, Get(m_w).m, 1)))
            ELSE to_float(weight_raw)

W_ModelVersion == <<"B", "a", "t", "e", "m", "o", " ", "C", "e", "l", "l", " ", "M", "o", "d", "e", "l", " ", "V", "e", "r", "s", "i", "o", "n">>

\* Batemo Cell Model Version\s*([0-9.]+): group 1 as text
parse_model_version(norm_text) ==
    LET items == Lit(W_ModelVersion) \o Star(Whitespace)
                     \o <<Item(Digits \cup {"."}, 1, Unbounded, 1)>>
        m_ver == search(items, norm_text)
    IN IF IsNone(m_ver) THEN None ELSE Some(group(norm_text, items, Get(m_ver), 1))

---------------------------------------------------------------------------
(* parse_cell_page: the release date                                      *)

W_ReleaseDate == <<"R", "e", "l", "e", "a", "s", "e", " ", "D", "a", "t", "e">>

\* Release Date\s*([A-Za-z]+\s+\d{1,2},\s+\d{4})
release_date_pattern ==
    Lit(W_ReleaseDate) \o Star(Whitespace)
        \o InGroup(<<Item(Letters, 1, Unbounded, 0), Item(Whitespace, 1, Unbounded, 0),
                     Item(Digits, 1, 2, 0), Item({","}, 1, 1, 0),
                     Item(Whitespace, 1, Unbounded, 0), Item(Digits, 4, 4, 0)>>, 1)

\* str.lower() on ASCII letters
lower(w) ==
    [k \in 1..Len(w) |->
        IF \E j \in 1..26 : UpperLetters[j] = w[k]
        THEN LowerLetters[CHOOSE j \in 1..26 : UpperLetters[j] = w[k]]
        ELSE w[k]]

\* the month names of %B (locale C), matched without regard to case
month_names ==
    <<<<"j", "a", "n", "u", "a", "r", "y">>,
      <<"f", "e", "b", "r", "u", "a", "r", "y">>,
      <<"m", "a", "r", "c", "h">>,
      <<"a", "p", "r", "i", "l">>,
      <<"m", "a", "y">>,
      <<"j", "u", "n", "e">>,
      <<"j", "u", "l", "y">>,
      <<"a", "u", "g", "u", "s", "t">>,
      <<"s", "e", "p", "t", "e", "m", "b", "e", "r">>,
      <<"o", "c", "t", "o", "b", "e", "r">>,
      <<"n", "o", "v", "e", "m", "b", "e", "r">>,
      <<"d", "e", "c", "e", "m", "b", "e", "r">>>>

\* the number of the month, 0 for a word that is no month name
month_number(w) ==
    IF \E k \in 1..12 : month_names[k] = lower(w)
    THEN CHOOSE k \in 1..12 : month_names[k] = lower(w)
    ELSE 0

is_leap(year) == year % 4 = 0 /\ (year % 100 # 0 \/ year % 400 = 0)

days_in_month(year, month) ==
    IF month = 2 THEN (IF is_leap(year) THEN 29 ELSE 28)
    ELSE IF month \in {4, 6, 9, 11} THEN 30 ELSE 31

DigitChar(n) == <<"0", "1", "2", "3", "4", "5", "6", "7", "8", "9">>[n + 1]

\* the decimal digits of n, zero-padded to width
RECURSIVE zero_padded(_, _)
zero_padded(n, width) ==
    IF width = 0 THEN <<>>
    ELSE zero_padded(n \div 10, width - 1) \o <<DigitChar(n % 10)>>

\* datetime.strptime(raw_date, "%B %d, %Y").date().isoformat(), or raw_date
\* itself where strptime raises ValueError: the word is no month name, the
\* day is 0 or does not exist in that month, the year is 0.  raw_date has
\* the shape the pattern captured: letters, blanks, one or two digits, a
\* comma, blanks, four digits.
iso_or_raw(raw_date) ==
    LET nl == run_length(raw_date, Letters, 0, Len(raw_date))
        ws1 == run_length(raw_date, Whitespace, nl, Len(raw_date))
        nd == run_length(raw_date, Digits, nl + ws1, 2)
        month == month_number(Slice(raw_date, 0, nl))
        day == digits_value(Slice(raw_date, nl + ws1, nl + ws1 + nd))
        year == digits_value(Slice(raw_date, Len(raw_date) - 4, Len(raw_date)))
    IN IF month = 0 \/ year = 0 \/ day = 0 \/ day > days_in_month(year, month)
       THEN raw_date
       ELSE zero_padded(year, 4) \o <<"-">> \o zero_padded(month, 2)
                \o <<"-">> \o zero_padded(day, 2)

parse_release_date(norm_text) ==
    LET m_date == search(release_date_pattern, norm_text)
    IN IF IsNone(m_date) THEN None
       ELSE Some(iso_or_raw(group(norm_text, release_date_pattern, Get(m_date), 1)))

---------------------------------------------------------------------------
(* Storage: the tables of init_db, upsert_cell, upsert_cells, log_result. *)
(* A row is a function from column names to Optional values.             *)

\* the column list of upsert_cell and of upsert_cells, in order
columns ==
    <<"slug", "name", "detail_url", "cell_origin", "cell_format",
      "dimensions_raw", "diameter_mm", "height_mm", "weight_g",
      "nominal_capacity_Ah", "c10_capacity_Ah", "c10_energy_Wh",
      "continuous_current_A", "peak_current_A", "continuous_power_W",
      "peak_power_W", "energy_density_Wh_per_kg",
      "energy_density_Wh_per_l", "power_density_kW_per_kg",
      "power_density_kW_per_l", "cell_model_version",
      "cell_model_release_date", "soc_min_pct", "soc_max_pct",
      "current_discharge_min_A", "current_charge_max_A", "current_c_min",
      "current_c_max", "voltage_min_V", "voltage_max_V", "temp_min_C",
      "temp_max_C", "mean_voltage_c10_V", "mean_voltage_peak_V",
      "r_eff_mOhm", "c_rate_continuous", "c_rate_peak", "raw_html">>

ColumnSet == {columns[i] : i \in 1..Len(columns)}

\* data.get(col)
data_get(d, col) == IF col \in DOMAIN d THEN d[col] ELSE None

\* a set clause that stops one column early: columns[1:-1]
set_clause_short(cols) == {cols[i] : i \in 2..Len(cols) - 1}

\* "col=excluded.col" for col in columns[1:]
set_clause(cols) == {cols[i] : i \in 2..Len(cols)}

\* INSERT INTO cells (cols) VALUES (values) ON CONFLICT(slug) DO UPDATE SET
\* set_cols; slug and detail_url are NOT NULL, id is assigned by the table.
\* ok is FALSE, and the table unchanged, when the statement raises.
insert_on_conflict_update(table, cols, set_cols, values) ==
    IF IsNone(values["slug"]) \/ IsNone(values["detail_url"])
    THEN [ok |-> FALSE, table |-> table]
    ELSE LET hit == {k \in 1..Len(table) : table[k]["slug"] = values["slug"]}
         IN IF hit = {}
            THEN [ok |-> TRUE,
                  table |-> Append(table,
                      [c \in ColumnSet \cup {"id"} |->
                          IF c = "id" THEN Some(Len(table) + 1) ELSE values[c]])]
            ELSE LET k == CHOOSE j \in hit : TRUE
                 IN [ok |-> TRUE,
                     table |-> [table EXCEPT ![k] =
                         [c \in ColumnSet \cup {"id"} |->
                             IF c \in set_cols THEN values[c] ELSE table[k][c]]]]

upsert_cell(table, d) ==
    insert_on_conflict_update(table, columns, set_clause(columns),
                              [c \in ColumnSet |-> data_get(d, c)])

\* upsert_cells: the same statement for every row read from SQLite
RECURSIVE upsert_cells(_, _)
upsert_cells(table, cells_rows) ==
    IF cells_rows = <<>> THEN table
    ELSE upsert_cells(
             insert_on_conflict_update(table, columns, set_clause(columns),
                 [c \in ColumnSet |-> Head(cells_rows)[c]]).table,
             Tail(cells_rows))

\* log_result: one more row of scrape_log (run 1; the message and the
\* time stamp are not modelled).  i is not a column: it notes the loop
\* iteration that made the call.
log_result(log, i, url, slug, status, http_status) ==
    Append(log, [run_id |-> 1, url |-> url, slug |-> slug,
                 status |-> status, http_status |-> http_status, i |-> i])

---------------------------------------------------------------------------
(* scrape_all: the loop over the URLs                                     *)

\* the characters a URL scheme is made of, as far as the model's URLs go
SchemeChars == {"h", "t", "p", "s", "+", "-", "."} \cup Digits

\* the schemes of urllib.parse.uses_params that the model's URLs can have
uses_params == {<<>>, <<"h", "t", "t", "p">>, <<"h", "t", "t", "p", "s">>}

\* urlsplit: the scheme is url[:i] for the first ":" when i > 0, url[0] is
\* a letter and only scheme characters come before the ":"
url_scheme_len(url) ==
    LET i == find(url, <<":">>, 0)
    IN IF i > 0 /\ url[1] \notin Digits \cup {"+", "-", "."}
          /\ \A k \in 1..i : url[k] \in SchemeChars
       THEN i ELSE -1

\* what follows the scheme and its ":"
url_after_scheme(url) ==
    IF url_scheme_len(url) < 0 THEN url
    ELSE Slice(url, url_scheme_len(url) + 1, Len(url))

\* _splitnetloc: after "//", the netloc ends before the first of "/?#"
url_netloc_end(rest) ==
    IF OccursAt(rest, <<"/", "/">>, 0)
    THEN LET delims == {k \in 2..Len(rest) - 1 : rest[k + 1] \in {"/", "?", "#"}}
         IN IF delims = {} THEN Len(rest) ELSE SetMin(delims)
    ELSE 0

url_netloc(url) ==
    LET rest == url_after_scheme(url)
    IN IF url_netloc_end(rest) = 0 THEN <<>> ELSE Slice(rest, 2, url_netloc_end(rest))

\* urlsplit raises ValueError ("Invalid IPv6 URL") for a netloc with one
\* bracket but not the other
urlparse_raises(url) ==
    LET netloc == url_netloc(url)
        has(c) == \E k \in 1..Len(netloc) : netloc[k] = c
    IN has("[") # has("]")

\* _splitparams: the path ends before the first ";" of its last segment
split_params(path) ==
    LET slashes == {k \in 0..Len(path) - 1 : path[k + 1] = "/"}
        from == IF slashes = {} THEN 0 ELSE CHOOSE k \in slashes : \A m \in slashes : m <= k
        i == find(path, <<";">>, from)
    IN IF i < 0 THEN path ELSE Slice(path, 0, i)

\* urlparse(url).path: what is left after scheme and netloc, before the
\* first "#", before the first "?", and without the params
url_path(url) ==
    LET rest == url_after_scheme(url)
        tail == Slice(rest, url_netloc_end(rest), Len(rest))
        cut == {k \in 1..Len(tail) : tail[k] \in {"?", "#"}}
        path == IF cut = {} THEN tail ELSE SubSeq(tail, 1, SetMin(cut) - 1)
        scheme == IF url_scheme_len(url) < 0 THEN <<>>
                  ELSE Slice(url, 0, url_scheme_len(url))
    IN IF scheme \in uses_params THEN split_params(path) ELSE path

\* path.rstrip("/")
RECURSIVE rstrip_slash(_)
rstrip_slash(s) ==
    IF s # <<>> /\ s[Len(s)] = "/" THEN rstrip_slash(SubSeq(s, 1, Len(s) - 1))
    ELSE s

\* s.split("/")[-1]
last_segment(s) ==
    LET slashes == {i \in 1..Len(s) : s[i] = "/"}
    IN IF slashes = {} THEN s
       ELSE SubSeq(s, (CHOOSE i \in slashes : \A j \in slashes : j <= i) + 1, Len(s))

slug_of(url) == last_segment(rstrip_slash(url_path(url)))

\* truth value of an Optional[str]: None and "" are false
TruthyStr(o) == IsSome(o) /\ Get(o) # <<>>

\* a page: the text of its h1 element, if it has one, and the elements
\* after it.  BeautifulSoup sees the h1 first.
soup_of(html) ==
    (IF IsSome(html.h1) THEN <<<<[kind |-> "text", s |-> Get(html.h1)]>>>> ELSE <<>>)
        \o html.body

\* "\n".join of the stripped, non-empty strings
RECURSIVE join_lines(_)
join_lines(ss) ==
    IF ss = <<>> THEN <<>>
    ELSE LET h == strip(Head(ss))
             t == join_lines(Tail(ss))
         IN IF h = <<>> THEN t
            ELSE IF t = <<>> THEN h
            ELSE h \o <<"\n">> \o t

\* soup.get_text(separator="\n", strip=True)
soup_get_text(soup) ==
    LET nodes == strings(soup)
    IN join_lines([k \in 1..Len(nodes) |-> nodes[k].s])

W_Energy == <<"E", "n", "e", "r", "g", "y">>
W_Power == <<"P", "o", "w", "e", "r">>
W_EnergyDensity == <<"E", "n", "e", "r", "g", "y", " ", "D", "e", "n", "s", "i", "t", "y">>
W_PowerDensity == <<"P", "o", "w", "e", "r", " ", "D", "e", "n", "s", "i", "t", "y">>
W_Model == <<"B", "a", "t", "e", "m", "o", " ", "C", "e", "l", "l", " ", "M", "o", "d", "e", "l">>
W_CellOrigin == <<"C", "e", "l", "l", " ", "O", "r", "i", "g", "i", "n">>
W_CellFormat == <<"C", "e", "l", "l", " ", "F", "o", "r", "m", "a", "t">>
W_Dimen == <<"D", "i", "m", "e", "n">>
W_Weight == <<"W", "e", "i", "g", "h", "t">>
W_Temper == <<"T", "e", "m", "p", "e", "r">>
\* the one character DEGREE SIGN
DegreeSign == "U+00B0"

\* " " + label, as the lists of next labels have it
sp(lbl) == <<" ">> \o lbl

\* the six blocks cut with no next labels: each runs to the end of the text
section_blocks_open(norm_text) ==
    [cap |-> extract_block(norm_text, W_Capacity, <<>>),
     current |-> extract_block(norm_text, W_Current, <<>>),
     energy |-> extract_block(norm_text, W_Energy, <<>>),
     power |-> extract_block(norm_text, W_Power, <<>>),
     energy_density |-> extract_block(norm_text, W_EnergyDensity, <<>>),
     power_density |-> extract_block(norm_text, W_PowerDensity, <<>>)]

\* the six blocks of lines 186-215
section_blocks(norm_text) ==
    [cap |-> extract_block(norm_text, W_Capacity,
                 <<sp(W_Current), sp(W_Energy), sp(W_Power),
                   sp(W_EnergyDensity), sp(W_PowerDensity)>>),
     current |-> extract_block(norm_text, W_Current,
                 <<sp(W_Energy), sp(W_Power), sp(W_EnergyDensity), sp(W_PowerDensity)>>),
     energy |-> extract_block(norm_text, W_Energy,
                 <<sp(W_Power), sp(W_EnergyDensity), sp(W_PowerDensity)>>),
     power |-> extract_block(norm_text, W_Power,
                 <<sp(W_EnergyDensity), sp(W_PowerDensity)>>),
     energy_density |-> extract_block(norm_text, W_EnergyDensity,
                 <<sp(W_PowerDensity), sp(W_ModelVersion)>>),
     power_density |-> extract_block(norm_text, W_PowerDensity,
                 <<sp(W_ModelVersion), <<"#", "#">>, sp(W_Model)>>)]

\* the fields read from the document and the URL, lines 149-301
primary_fields(html, url) ==
    LET soup == soup_of(html)
        norm_text == normalize_whitespace(soup_get_text(soup))
        dim_raw == extract_label_value(soup, W_Dimen)
        dims == parse_dimensions(dim_raw)
        b == section_blocks(norm_text)
        soc == parse_range_simple(norm_text, W_SoCRange, Some(<<"%">>))
        cur == parse_current_range(norm_text)
        volt == parse_range_simple(norm_text, W_VoltageRange, Some(<<"V">>))
        temp == parse_range_simple(norm_text, W_Temper, Some(<<DegreeSign, "C">>))
    IN [name |-> IF IsSome(html.h1) THEN Some(strip(Get(html.h1))) ELSE None,
        slug |-> Some(slug_of(url)),
        detail_url |-> Some(url),
        cell_origin |-> extract_label_value(soup, W_CellOrigin),
        cell_format |-> extract_label_value(soup, W_CellFormat),
        dimensions_raw |-> dim_raw,
        diameter_mm |-> dims[1],
        height_mm |-> dims[2],
        weight_g |-> parse_weight(extract_label_value(soup, W_Weight)),
        nominal_capacity_Ah |->
            parse_first_float(b.cap, field_pattern(prefix_nominal, <<"A", "h">>)),
        c10_capacity_Ah |->
            parse_first_float(b.cap, field_pattern(prefix_C10, <<"A", "h">>)),
        continuous_current_A |->
            parse_first_float(b.current, field_pattern(prefix_contin, <<"A">>)),
        peak_current_A |->
            parse_first_float(b.current, field_pattern(prefix_peak, <<"A">>)),
        c10_energy_Wh |->
            parse_first_float(b.energy, field_pattern(prefix_C10, <<"W", "h">>)),
        continuous_power_W |->
            parse_first_float(b.power, field_pattern(prefix_contin, <<"W">>)),
        peak_power_W |->
            parse_first_float(b.power, field_pattern(prefix_peak, <<"W">>)),
        energy_density_Wh_per_kg |->
            parse_first_float(b.energy_density, field_pattern(prefix_gravi, <<"W", "h", "/", "k", "g">>)),
        energy_density_Wh_per_l |->
            parse_first_float(b.energy_density, field_pattern(prefix_volumetric, <<"W", "h", "/", "l">>)),
        power_density_kW_per_kg |->
            parse_first_float(b.power_density, field_pattern(prefix_gravi, <<"k", "W", "/", "k", "g">>)),
        power_density_kW_per_l |->
            parse_first_float(b.power_density, field_pattern(prefix_volumetric, <<"k", "W", "/", "l">>)),
        cell_model_version |-> parse_model_version(norm_text),
        cell_model_release_date |-> parse_release_date(norm_text),
        soc_min_pct |-> soc[1],
        soc_max_pct |-> soc[2],
        current_discharge_min_A |-> cur[1],
        current_charge_max_A |-> cur[2],
        current_c_min |-> cur[3],
        current_c_max |-> cur[4],
        voltage_min_V |-> volt[1],
        voltage_max_V |-> volt[2],
        temp_min_C |-> temp[1],
        temp_max_C |-> temp[2],
        raw_html |-> Some(html)]

\* urlparse is the one call of parse_cell_page that can raise
parse_cell_page_raises(html, url) == urlparse_raises(url)

\* parse_cell_page filling the record of the call before: a field found
\* absent keeps what the last document gave it
parse_cell_page_kept(html, url) ==
    LET primary == primary_fields(html, url)
        kept == [c \in DOMAIN primary |->
                    IF primary[c] = None /\ data # None THEN Get(data)[c]
                    ELSE primary[c]]
        derived == derive(kept)
    IN [c \in ColumnSet |-> IF c \in DerivedFields THEN derived[c] ELSE kept[c]]

\* parse_cell_page: the fields read, then the derived ones of lines 304-336
parse_cell_page(html, url) ==
    LET primary == primary_fields(html, url)
        derived == derive(primary)
    IN [c \in ColumnSet |-> IF c \in DerivedFields THEN derived[c] ELSE primary[c]]

\* the test without its slug half
is_parse_failure_name_only(d) == ~TruthyStr(d["name"])

\* the test with "and" in place of "or"
is_parse_failure_both(d) == ~TruthyStr(d["name"]) /\ ~TruthyStr(d["slug"])

\* if not data.get("name") or not slug
is_parse_failure(d) == ~TruthyStr(d["name"]) \/ ~TruthyStr(d["slug"])

\* an entry of the call history; how is "ok", or "raise" (conn.execute
\* raised), or "raise_commit" (conn.commit raised after the statement ran)
Ev(i, call, status, d, how) ==
    [i |-> i, call |-> call, status |-> status, data |-> d, how |-> how]

\* a storage call (conn.execute, then conn.commit) that leaves the tables
\* as new_cells and new_log.  st.cells and st.scrape_log are what the
\* connection sees, st.c_cells and st.c_log what is committed.
storage_call(st, how, new_cells, new_log) ==
    CASE how = "ok" ->
           [st EXCEPT !.cells = new_cells, !.scrape_log = new_log,
                      !.c_cells = new_cells, !.c_log = new_log]
      [] how = "raise_commit" ->
           [st EXCEPT !.cells = new_cells, !.scrape_log = new_log]
      [] OTHER -> st

\* an exception leaves scrape_all: what was not committed is lost
propagate(st) ==
    [st EXCEPT !.crashed = TRUE, !.cells = st.c_cells, !.scrape_log = st.c_log]

\* except Exception: count, then log "other_error"; a raise in here ends
\* the run
handle_exception(st, i, url, slug, http_status, how) ==
    LET st1 == [st EXCEPT !.other_error_count = @ + 1,
                          !.events = Append(@, Ev(i, "log_result", "other_error",
                                                  None, how))]
        st2 == storage_call(st1, how, st1.cells,
                   log_result(st1.scrape_log, i, url, slug, "other_error", http_status))
    IN IF how = "ok" THEN st2 ELSE propagate(st2)

\* except requests.RequestException: count, then log "http_error"
handle_request_exception(st, i, url, slug, http_status, how) ==
    LET st1 == [st EXCEPT !.http_error_count = @ + 1,
                          !.events = Append(@, Ev(i, "log_result", "http_error",
                                                  None, how))]
        st2 == storage_call(st1, how, st1.cells,
                   log_result(st1.scrape_log, i, url, slug, "http_error", http_status))
    IN IF how = "ok" THEN st2 ELSE propagate(st2)

\* log_result called twice
log_in_try_twice(st, i, url, slug, status, http_status, db, k) ==
    LET st1 == [st EXCEPT !.events = Append(@, Ev(i, "log_result", status,
                                                  None, db[k]))]
        once == log_result(st1.scrape_log, i, url, slug, status, http_status)
        st2 == storage_call(st1, db[k], st1.cells,
                   log_result(once, i, url, slug, status, http_status))
    IN IF db[k] = "ok" THEN st2
       ELSE handle_exception(st2, i, url, slug, http_status, db[k + 1])

\* log_result inside the try block, as storage call k of the iteration:
\* when it raises, the handler for Exception runs, its own log call being
\* storage call k + 1
log_in_try(st, i, url, slug, status, http_status, db, k) ==
    LET st1 == [st EXCEPT !.events = Append(@, Ev(i, "log_result", status,
                                                  None, db[k]))]
        st2 == storage_call(st1, db[k], st1.cells,
                   log_result(st1.scrape_log, i, url, slug, status, http_status))
    IN IF db[k] = "ok" THEN st2
       ELSE handle_exception(st2, i, url, slug, http_status, db[k + 1])

\* the loop body from "slug = data.get("slug")" on, d being the record
\* parse_cell_page returned
with_record(st0, i, url, env, http_status, d) ==
    LET slug == d["slug"]
        st1 == [st0 EXCEPT !.events =
                    Append(@, Ev(i, "parse_cell_page", "", Some(d), "ok"))]
    IN IF is_parse_failure(d)
       THEN log_in_try([st1 EXCEPT !.parse_error_count = @ + 1],
                       i, url, slug, "parse_error", http_status, env.db, 1)
       ELSE
       LET up == upsert_cell(st1.cells, d)
           how == IF up.ok THEN env.db[1] ELSE "raise"
           st2 == storage_call(
                      [st1 EXCEPT !.events =
                           Append(@, Ev(i, "upsert_cell", "", Some(d), how))],
                      how, up.table, st1.scrape_log)
       IN IF how # "ok"
          THEN handle_exception(st2, i, url, slug, http_status, env.db[2])
          ELSE log_in_try([st2 EXCEPT !.success_count = @ + 1],
                          i, url, slug, "ok", http_status, env.db, 2)

\* the body of "for idx, url in enumerate(urls, start=1)" for URL number i.
\* env is what the outside does in this iteration: session.get raises or
\* returns a response (status_code, page), and storage call k of the
\* iteration ends as db[k].
loop_body(st, i, url, env) ==
    IF env.get = "RequestException"
    THEN handle_request_exception(
             [st EXCEPT !.events = Append(@, Ev(i, "get", "raise", None, "raise"))],
             i, url, None, None, env.db[1])
    ELSE
    LET http_status == Some(env.status_code)
        st0 == [st EXCEPT !.events = Append(@, Ev(i, "get", "response", None, "ok"))]
    IN IF env.status_code # 200
       THEN log_in_try([st0 EXCEPT !.http_error_count = @ + 1],
                       i, url, None, "http_error", http_status, env.db, 1)
       ELSE IF parse_cell_page_raises(env.page, url)
       THEN handle_exception(
                [st0 EXCEPT !.events =
                     Append(@, Ev(i, "parse_cell_page", "", None, "raise"))],
                i, url, None, http_status, env.db[1])
       ELSE with_record(st0, i, url, env, http_status,
                        parse_cell_page(env.page, url))

MaxUrls == 2

\* "/a/" (slug "a" once the trailing slash is stripped), "/" (no last
\* segment: the slug is empty)
UrlPool == {<<"/", "a", "/">>, <<"/">>}

\* pages by their h1: none, empty, with surrounding blanks, plain
Pages == {[h1 |-> None, body |-> <<>>], [h1 |-> Some(<<>>), body |-> <<>>],
          [h1 |-> Some(<<" ", "A", " ">>), body |-> <<>>],
          [h1 |-> Some(<<"B">>), body |-> <<>>]}

\* how the storage calls of an iteration end: at most three are made
StorageOutcomes == [1..3 -> {"ok", "raise", "raise_commit"}]

Envs ==
    {[get |-> "RequestException", status_code |-> 0, page |-> [h1 |-> None, body |-> <<>>], db |-> db] :
        db \in StorageOutcomes}
    \cup {[get |-> "Response", status_code |-> 404, page |-> [h1 |-> None, body |-> <<>>], db |-> db] :
        db \in StorageOutcomes}
    \cup {[get |-> "Response", status_code |-> 200, page |-> pg, db |-> db] :
        pg \in Pages, db \in StorageOutcomes}

\* after init_db and start_scrape_run: empty tables, run 1 started
Init ==
    /\ IdleFn
    /\ IdlePages
    /\ IdleUpload
    /\ pc = "loop"
    /\ IdleSeg
    /\ IdleRange
    /\ data = None
    /\ urls \in SeqsOf(UrlPool, 0, MaxUrls)
    /\ idx = 0
    /\ cells = <<>>
    /\ scrape_log = <<>>
    /\ scrape_runs = <<[id |-> 1, finished |-> FALSE, total_urls |-> None,
                        success_count |-> None, http_error_count |-> None,
                        parse_error_count |-> None, other_error_count |-> None]>>
    /\ success_count = 0
    /\ http_error_count = 0
    /\ parse_error_count = 0
    /\ other_error_count = 0
    /\ pg_cells = <<>>
    /\ events = <<>>

\* one iteration of the loop
\* the state after the iteration that ends as st; data is the record
\* parse_cell_page returned in it, if it was called and returned
Iterated(st) ==
    /\ cells' = st.cells
    /\ scrape_log' = st.scrape_log
    /\ success_count' = st.success_count
    /\ http_error_count' = st.http_error_count
    /\ parse_error_count' = st.parse_error_count
    /\ other_error_count' = st.other_error_count
    /\ events' = st.events
    /\ pc' = IF st.crashed THEN "crashed" ELSE "loop"
    /\ data' = LET parsed == {k \in 1..Len(st.events) :
                                 /\ st.events[k].i = idx + 1
                                 /\ st.events[k].call = "parse_cell_page"
                                 /\ st.events[k].how = "ok"}
               IN IF parsed = {} THEN data
                  ELSE st.events[CHOOSE k \in parsed : TRUE].data

ProcessUrl(env) ==
    /\ pc = "loop"
    /\ idx < Len(urls)
    /\ Iterated(loop_body([cells |-> cells, scrape_log |-> scrape_log,
                           success_count |-> success_count,
                           http_error_count |-> http_error_count,
                           parse_error_count |-> parse_error_count,
                           other_error_count |-> other_error_count,
                           events |-> events, crashed |-> FALSE,
                           c_cells |-> cells, c_log |-> scrape_log],
                          idx + 1, urls[idx + 1], env))
    /\ idx' = idx + 1
    /\ UNCHANGED <<segVars, rangeVars, urls, scrape_runs, pg_cells>>
    /\ UNCHANGED <<fnVars, pageVars, uploadVars>>

\* after the loop: finish_scrape_run stores the counters
FinishRun ==
    /\ pc = "loop"
    /\ idx = Len(urls)
    /\ scrape_runs' = [scrape_runs EXCEPT ![1] =
           [@ EXCEPT !.finished = TRUE,
                     !.total_urls = Some(Len(urls)),
                     !.success_count = Some(success_count),
                     !.http_error_count = Some(http_error_count),
                     !.parse_error_count = Some(parse_error_count),
                     !.other_error_count = Some(other_error_count)]]
    /\ pc' = "done"
    /\ UNCHANGED <<segVars, rangeVars, data, urls, idx, cells, scrape_log,
                   counters, pg_cells, events>>
    /\ UNCHANGED <<fnVars, pageVars, uploadVars>>

Next == (\E env \in Envs : ProcessUrl(env)) \/ FinishRun
Spec == Init /\ [][Next]_vars

---------------------------------------------------------------------------
(* Claims C3, C4: what the loop does with a parsed record                 *)

\* the positions in the call history of the calls "call" of iteration i
CallsOf(i, call) ==
    {k \in 1..Len(events) : events[k].i = i /\ events[k].call = call}

\* the iterations whose fetch returned HTTP 200 and whose parse_cell_page
\* returned a record
Parsed ==
    {i \in 1..idx : \E k \in CallsOf(i, "parse_cell_page") : events[k].how = "ok"}

\* the record parse_cell_page returned in iteration i
ParsedData(i) == Get(events[CHOOSE k \in CallsOf(i, "parse_cell_page") : TRUE].data)

\* iteration i took the parse-failure branch: log_result was called with
\* status "parse_error"
ClassifiedParseError(i) ==
    \E k \in CallsOf(i, "log_result") : events[k].status = "parse_error"

\* the rows of scrape_log that iteration i wrote with the given status
Entries(i, status) ==
    {k \in 1..Len(scrape_log) : scrape_log[k].i = i /\ scrape_log[k].status = status}

HasName(d) == TruthyStr(d["name"])
HasSlug(d) == TruthyStr(d["slug"])

\* C3 as stated: an attempt is classified as a parse failure if and only
\* if its record has neither a name nor a slug.
C3_FailureIffBothAbsent ==
    \A i \in Parsed :
        ClassifiedParseError(i) <=> (~HasName(ParsedData(i)) /\ ~HasSlug(ParsedData(i)))

\* C3 amended: an attempt is classified as a parse failure if and only if
\* its record lacks a name or lacks a slug; a record that has both is not,
\* and parse_error_count counts exactly these attempts.
C3_FailureIffEitherAbsent ==
    /\ \A i \in Parsed :
          ClassifiedParseError(i) <=> (~HasName(ParsedData(i)) \/ ~HasSlug(ParsedData(i)))
    /\ parse_error_count =
          Cardinality({i \in Parsed : ~HasName(ParsedData(i)) \/ ~HasSlug(ParsedData(i))})

\* a record with a slug but without a name went to the parse-failure
\* branch, and one with a name but without a slug did too
C3_Witness ==
    /\ \E i \in Parsed : /\ ~HasName(ParsedData(i)) /\ HasSlug(ParsedData(i))
                         /\ ClassifiedParseError(i)
    /\ \E i \in Parsed : /\ HasName(ParsedData(i)) /\ ~HasSlug(ParsedData(i))
                         /\ ClassifiedParseError(i)

\* upsert_cell was called in iteration i
UpsertCalled(i) == CallsOf(i, "upsert_cell") # {}

\* every "ok" entry of iteration i was written after upsert_cell was
\* called with the record
UpsertBeforeOk(i) ==
    \A k \in CallsOf(i, "log_result") :
        events[k].status = "ok" =>
            \E u \in CallsOf(i, "upsert_cell") :
                u < k /\ events[u].data = Some(ParsedData(i))

Accepted(i) ==
    /\ HasName(ParsedData(i)) /\ HasSlug(ParsedData(i))
    /\ UpsertCalled(i)
    /\ UpsertBeforeOk(i)

---------------------------------------------------------------------------
(* upsert_cell and upsert_cells on their own: records upserted under a    *)
(* few slugs, and the SQLite rows uploaded to PostgreSQL                  *)

\* the number of calls in a history
MaxUpserts == 4

\* a record with every column absent but the given ones
record(slug, name, detail_url, raw_html) ==
    [c \in ColumnSet |->
        CASE c = "slug" -> slug
          [] c = "name" -> name
          [] c = "detail_url" -> detail_url
          [] c = "raw_html" -> raw_html
          [] OTHER -> None]

\* the records upsert_cell is called with: two slugs, the first and the
\* last updated column present or absent, a dict without most keys, and
\* two records the NOT NULL constraints reject
DataPool ==
    {record(Some(slug), name, Some(<<"/">> \o slug), raw_html) :
        slug \in {<<"a">>, <<"b">>},
        name \in {None, Some(<<"A">>)},
        raw_html \in {None, Some([h1 |-> Some(<<"A">>)])}}
    \cup {[slug |-> Some(<<"a">>), detail_url |-> Some(<<"/", "x", "/", "a">>)]}
    \cup {record(None, Some(<<"A">>), Some(<<"/">>), None),
          record(Some(<<"a">>), Some(<<"B">>), None, None)}

InitUpsert ==
    /\ IdleFn
    /\ IdlePages
    /\ IdleUpload
    /\ pc = "upsert"
    /\ IdleSeg
    /\ IdleRange
    /\ IdleRun
    /\ data = None

\* upsert_cell(conn, d): the statement and its commit; when the statement
\* raises, the table is as before
UpsertCell(d) ==
    /\ pc = "upsert"
    /\ Len(events) < MaxUpserts
    /\ LET up == upsert_cell(cells, d)
       IN /\ cells' = up.table
          /\ events' = Append(events,
                 Ev(Len(events) + 1, "upsert_cell", "", Some(d),
                    IF up.ok THEN "ok" ELSE "raise"))
    /\ data' = Some(d)
    /\ UNCHANGED <<pc, segVars, rangeVars, urls, idx, scrape_log, scrape_runs,
                   counters, pg_cells>>
    /\ UNCHANGED <<fnVars, pageVars, uploadVars>>

\* upload_to_postgres in mode "upsert": every row of the SQLite table
UploadCells ==
    /\ pc = "upsert"
    /\ Len(events) < MaxUpserts
    /\ pg_cells' = upsert_cells(pg_cells, cells)
    /\ events' = Append(events,
           Ev(Len(events) + 1, "upsert_cells", "", None, "ok"))
    /\ UNCHANGED <<pc, segVars, rangeVars, data, urls, idx, cells, scrape_log,
                   scrape_runs, counters>>
    /\ UNCHANGED <<fnVars, pageVars, uploadVars>>

NextUpsert == (\E d \in DataPool : UpsertCell(d)) \/ UploadCells
SpecUpsert == InitUpsert /\ [][NextUpsert]_vars

---------------------------------------------------------------------------
(* Claim C5                                                               *)

\* the positions, among the first n calls, of the upserts that stored a
\* record under slug
UpsertsOf(slug, n) ==
    {k \in 1..n : /\ events[k].call = "upsert_cell"
                  /\ events[k].how = "ok"
                  /\ data_get(Get(events[k].data), "slug") = slug}

SetMax(S) == CHOOSE x \in S : \A y \in S : y <= x

\* the slugs stored by the first n calls
SlugsOf(n) ==
    {data_get(Get(events[k].data), "slug") :
        k \in {j \in 1..n : events[j].call = "upsert_cell" /\ events[j].how = "ok"}}

\* the table holds exactly one row for every slug stored by the first n
\* calls and no other row; the row keeps the place, and so the id, it got
\* when the slug was first stored; every column but id holds the value
\* the most recent of these upserts gave it, absent where that was absent
ReplacedNotMerged(table, n) ==
    /\ Len(table) = Cardinality(SlugsOf(n))
    /\ \A s \in SlugsOf(n) :
          LET rows == {k \in 1..Len(table) : table[k]["slug"] = s}
              last == Get(events[SetMax(UpsertsOf(s, n))].data)
              first == SetMin(UpsertsOf(s, n))
          IN /\ Cardinality(rows) = 1
             /\ \A k \in rows :
                   /\ \A c \in ColumnSet : table[k][c] = data_get(last, c)
                   /\ table[k]["id"] = Some(k)
                   /\ k = Cardinality({t \in SlugsOf(n) :
                                          SetMin(UpsertsOf(t, n)) <= first})

\* the position of the last upload in the history, 0 when there is none
LastUpload ==
    IF \E k \in 1..Len(events) : events[k].call = "upsert_cells"
    THEN SetMax({k \in 1..Len(events) : events[k].call = "upsert_cells"})
    ELSE 0

\* C5: after any sequence of upsert_cell calls the cells table holds at
\* most one row per slug, the row's slug and place never change, and every
\* other column equals the value of the most recent upsert stored for that
\* slug, an absent value included: nothing of an earlier record with the
\* slug survives.  The same holds of the PostgreSQL table for the rows
\* upsert_cells uploaded.
C5_ReplaceNeverMerge ==
    /\ ReplacedNotMerged(cells, Len(events))
    /\ ReplacedNotMerged(pg_cells, LastUpload)

\* a slug was stored twice, the second record without the name and the
\* page the first one had, and the row was uploaded after each
C5_Witness ==
    \E j, k \in 1..Len(events) :
        /\ j < k
        /\ UpsertsOf(Some(<<"a">>), Len(events)) = {j, k}
        /\ IsSome(data_get(Get(events[j].data), "name"))
        /\ IsSome(data_get(Get(events[j].data), "raw_html"))
        /\ IsNone(data_get(Get(events[k].data), "name"))
        /\ IsNone(data_get(Get(events[k].data), "raw_html"))
        /\ LastUpload > k
        /\ \E u \in j + 1..k - 1 : events[u].call = "upsert_cells"

---------------------------------------------------------------------------
(* to_float on its own: one call on a token                               *)

\* the length of the enumerated tokens
MaxTokenLen == 3

TokenAlphabet == {"3", "5", ".", ",", "-", " ", "n", "a", "_"}

W_abc == <<"a", "b", "c">>
W_grouped == <<"1", ",", "2", "3", "4", ".", "5">>
W_inf == <<"i", "n", "f">>

\* None, every token over the alphabet, and the named examples
Tokens ==
    {None} \cup {Some(t) : t \in SeqsOf(TokenAlphabet, 0, MaxTokenLen)}
           \cup {Some(W_abc), Some(W_grouped), Some(W_inf)}

InitFloat ==
    /\ pc = "call"
    /\ IdleSeg
    /\ IdleRange
    /\ IdleRun
    /\ IdlePages
    /\ IdleUpload
    /\ data = None
    /\ args \in {[value |-> v] : v \in Tokens}
    /\ result = None

ToFloat ==
    /\ pc = "call"
    /\ result' = to_float(args.value)
    /\ pc' = "return"
    /\ UNCHANGED <<segVars, data, rangeVars, runVars, args, pageVars, uploadVars>>

NextFloat == ToFloat
SpecFloat == InitFloat /\ [][NextFloat]_vars

---------------------------------------------------------------------------
(* Claim C11                                                              *)

\* a decimal numeral: blanks around it aside, an optional sign, then
\* digits with at most one decimal point or comma and at least one digit
WellFormedNumber(t) ==
    LET s == strip(t)
        body == IF s # <<>> /\ s[1] \in {"-", "+"} THEN Tail(s) ELSE s
    IN /\ \A k \in 1..Len(body) : body[k] \in Digits \cup {".", ","}
       /\ Cardinality({k \in 1..Len(body) : body[k] \in {".", ","}}) <= 1
       /\ \E k \in 1..Len(body) : body[k] \in Digits

\* C11: to_float returns absent for an absent or empty token, the same
\* number for a token with a decimal comma as for the token with a decimal
\* point, and absent for every token that is not a well-formed number.
C11_Totality ==
    pc = "return" =>
        /\ (IsNone(args.value) \/ Get(args.value) = <<>>) => result = None
        /\ IsSome(args.value) =>
              result = to_float(Some(comma_to_point(Get(args.value))))
        /\ (IsSome(args.value) /\ ~WellFormedNumber(Get(args.value)))
              => result = None

---------------------------------------------------------------------------
(* normalize_whitespace on its own: called on a text, then on its result  *)

\* the length of the enumerated texts
MaxNormLen == 5

NormAlphabet == {"a", "b", " ", "\n", "\t", NoBreakSpace}

InitNormalize ==
    /\ pc = "call"
    /\ IdleSeg
    /\ IdleRange
    /\ IdleRun
    /\ IdlePages
    /\ IdleUpload
    /\ data = None
    /\ args \in {[text |-> t] : t \in SeqsOf(NormAlphabet, 0, MaxNormLen)}
    /\ result = None

Normalize ==
    /\ pc = "call"
    /\ result' = Some(normalize_whitespace(args.text))
    /\ pc' = "return"
    /\ UNCHANGED <<segVars, data, rangeVars, runVars, args, pageVars, uploadVars>>

\* the result is normalized once more; first keeps the text of the first
\* call
NormalizeAgain ==
    /\ pc = "return"
    /\ args' = [text |-> Get(result), first |-> args.text]
    /\ result' = Some(normalize_whitespace(Get(result)))
    /\ pc' = "return_again"
    /\ UNCHANGED <<segVars, data, rangeVars, runVars, pageVars, uploadVars>>

NextNormalize == Normalize \/ NormalizeAgain
SpecNormalize == InitNormalize /\ [][NextNormalize]_vars

---------------------------------------------------------------------------
(* Claim C12                                                              *)

\* no whitespace at either end, and no whitespace character but single
\* spaces between two characters that are not whitespace
Normalized(s) ==
    \A k \in 1..Len(s) :
        s[k] \in Whitespace =>
            /\ s[k] = " "
            /\ k > 1 /\ s[k - 1] \notin Whitespace
            /\ k < Len(s) /\ s[k + 1] \notin Whitespace

\* the runs of characters that are not whitespace, in order
RECURSIVE Words(_)
Words(s) ==
    LET t == lstrip(s)
        n == CHOOSE m \in 0..Len(t) :
                 /\ \A k \in 1..m : t[k] \notin Whitespace
                 /\ m = Len(t) \/ t[m + 1] \in Whitespace
    IN IF t = <<>> THEN <<>> ELSE <<Slice(t, 0, n)>> \o Words(Slice(t, n, Len(t)))

\* C12: normalize_whitespace returns, for every text, a text without
\* leading or trailing whitespace whose only whitespace characters are
\* single spaces between runs of other characters, with the same runs in
\* the same order; normalizing the result again returns it unchanged.
C12_Idempotent ==
    /\ pc \in {"return", "return_again"} =>
          /\ Normalized(Get(result))
          /\ Words(Get(result)) = Words(args.text)
    /\ pc = "return_again" => Get(result) = args.text

\* a text with whitespace at both ends and a run of several whitespace
\* characters inside was normalized twice
C12_Witness ==
    /\ pc = "return_again"
    /\ args.first = <<"\n", "a", " ", "\t", "b">>
    /\ args.text = <<"a", " ", "b">>
    /\ Get(result) = <<"a", " ", "b">>

---------------------------------------------------------------------------
(* extract_label_value on its own                                         *)

\* the number of elements of a document
MaxElements == 2

W_Label == <<"L">>

\* text nodes: label and value, the same after a blank, the label alone,
\* a value alone, the label twice
NodeTexts ==
    {<<"L", " ", "v">>, <<" ", "L", " ", "v">>, <<"L">>, <<"w">>,
     <<"L", " ", "L">>}

\* an element: a text node, followed or not by one more item
Elements ==
    {<<[kind |-> "text", s |-> t]>> : t \in NodeTexts}
    \cup {<<[kind |-> "text", s |-> t], [kind |-> k, s |-> u]>> :
             t \in NodeTexts, k \in {"text", "elem"}, u \in NodeTexts}

InitLabel ==
    /\ pc = "call"
    /\ IdleSeg
    /\ IdleRange
    /\ IdleRun
    /\ IdlePages
    /\ IdleUpload
    /\ data = None
    /\ args \in {[soup |-> d, label_prefix |-> W_Label] :
                    d \in SeqsOf(Elements, 0, MaxElements)}
    /\ result = None

ExtractLabelValue ==
    /\ pc = "call"
    /\ result' = extract_label_value(args.soup, args.label_prefix)
    /\ pc' = "return"
    /\ UNCHANGED <<segVars, data, rangeVars, runVars, args, pageVars, uploadVars>>

NextLabel == ExtractLabelValue
SpecLabel == InitLabel /\ [][NextLabel]_vars

---------------------------------------------------------------------------
(* Claim C13                                                              *)

\* C13: extract_label_value selects the first text node, in document
\* order, whose trimmed content begins with label_prefix; it returns
\* absent if there is none, and otherwise the containing element's
\* rendered text with the first occurrence of label_prefix removed and
\* trimmed, or absent when that remainder is empty.
C13_FirstTrimmedNode ==
    pc = "return" =>
        LET nodes == strings(args.soup)
            hits == {k \in 1..Len(nodes) :
                        OccursAt(strip(nodes[k].s), args.label_prefix, 0)}
        IN IF hits = {} THEN result = None
           ELSE LET full == get_text(args.soup, nodes[SetMin(hits)].parent)
                    i == find(full, args.label_prefix, 0)
                    rest == strip(Slice(full, 0, i)
                                    \o Slice(full, i + Len(args.label_prefix), Len(full)))
                IN result = IF rest = <<>> THEN None ELSE Some(rest)

---------------------------------------------------------------------------
(* The slug of a source identifier on its own                             *)

\* the length of what follows scheme and host in the enumerated URLs
MaxPathLen == 4

PathAlphabet == {"a", "/", "?", "#", ";"}

\* nothing, a scheme, a host, both; a scheme without params; a host with
\* an opening bracket only
UrlPrefixes ==
    {<<>>, <<"h", "t", "t", "p", ":">>, <<"/", "/", "h">>, <<"h", "t", "t", "p", ":", "/", "/", "h">>, <<"h", ":", "/", "/", "h">>, <<"/", "/", "[">>}

SlugUrls == {pre \o t : pre \in UrlPrefixes, t \in SeqsOf(PathAlphabet, 0, MaxPathLen)}

InitSlug ==
    /\ pc = "call"
    /\ IdleSeg
    /\ IdleRange
    /\ IdleRun
    /\ IdlePages
    /\ IdleUpload
    /\ data = None
    /\ args \in {[url |-> u] : u \in SlugUrls}
    /\ result = None

\* lines 156-158 of parse_cell_page: the slug, or the ValueError of urlparse
DeriveSlug ==
    /\ pc = "call"
    /\ IF urlparse_raises(args.url)
       THEN result' = None /\ pc' = "raise"
       ELSE result' = Some(slug_of(args.url)) /\ pc' = "return"
    /\ UNCHANGED <<segVars, data, rangeVars, runVars, args, pageVars, uploadVars>>

NextSlug == DeriveSlug
SpecSlug == InitSlug /\ [][NextSlug]_vars

---------------------------------------------------------------------------
(* Claim C16                                                              *)

\* the URL before its query and fragment
BeforeQueryAndFragment(url) ==
    LET cut == {k \in 1..Len(url) : url[k] \in {"?", "#"}}
    IN IF cut = {} THEN url ELSE SubSeq(url, 1, SetMin(cut) - 1)

\* C16: the slug is determined by the path of the source identifier alone
\* (the last path segment after trailing slashes are removed; query and
\* fragment do not affect it), and it is non-empty for every source
\* identifier, also one whose path is empty or "/".
C16_SlugNonEmpty ==
    pc = "return" =>
        /\ result = Some(last_segment(rstrip_slash(url_path(args.url))))
        /\ \A k \in 1..Len(Get(result)) : Get(result)[k] # "/"
        /\ result = Some(slug_of(BeforeQueryAndFragment(args.url)))
        /\ Get(result) # <<>>

---------------------------------------------------------------------------
(* parse_cell_page on its own: one call on a page that deviates from a    *)
(* complete page in a few places                                          *)

\* the number of places in which a page deviates from the complete page
MaxDeviations == 1

\* the places of a page, in document order, and the texts each can have:
\* the first is the complete one; "" means the element is not there
PageSlots ==
    <<"h1", "origin", "format", "dimensions", "weight", "capacity", "current",
      "energy", "power", "energy_density", "power_density", "version", "date",
      "soc", "current_range", "voltage", "temperature">>

SlotTexts ==
    [h1 |-> <<<<"C", "e", "l", "l", " ", "X">>, <<>>>>,
     origin |-> <<<<"C", "e", "l", "l", " ", "O", "r", "i", "g", "i", "n", " ", "s", "o", "u", "r", "c", "e", "d", " ", "b", "y", " ", "B", "a", "t", "e", "m", "o">>, <<>>, <<"C", "e", "l", "l", " ", "O", "r", "i", "g", "i", "n">>>>,
     format |-> <<<<"C", "e", "l", "l", " ", "F", "o", "r", "m", "a", "t", " ", "c", "y", "l", "i", "n", "d", "r", "i", "c", "a", "l">>, <<>>>>,
     dimensions |-> <<<<"D", "i", "m", "e", "n", "s", "i", "o", "n", "s", " ", "1", "8", ".", "3", " ", "x", " ", "6", "5", " ", "m", "m">>, <<>>, <<"D", "i", "m", "e", "n", "s", "i", "o", "n", "s", " ", "n", "/", "a">>>>,
     weight |-> <<<<"W", "e", "i", "g", "h", "t", " ", "4", "5", " ", "g">>, <<>>, <<"W", "e", "i", "g", "h", "t", " ", "n", "/", "a">>>>,
     capacity |-> <<<<"C", "a", "p", "a", "c", "i", "t", "y", " ", "n", "o", "m", "i", "n", "a", "l", " ", "5", " ", "A", "h", " ", "C", "/", "1", "0", " ", "4", " ", "A", "h">>, <<>>,
                    <<"n", "o", "m", "i", "n", "a", "l", " ", "5", " ", "A", "h", " ", "C", "/", "1", "0", " ", "4", " ", "A", "h">>, <<"C", "a", "p", "a", "c", "i", "t", "y", " ", "n", "o", "m", "i", "n", "a", "l", " ", "n", "/", "a", " ", "C", "/", "1", "0", " ", "4", " ", "A", "h">>>>,
     current |-> <<<<"C", "u", "r", "r", "e", "n", "t", " ", "c", "o", "n", "t", "i", "n", "u", "o", "u", "s", " ", "1", "0", " ", "A", " ", "p", "e", "a", "k", " ", "2", "0", " ", "A">>, <<>>,
                   <<"c", "o", "n", "t", "i", "n", "u", "o", "u", "s", " ", "1", "0", " ", "A", " ", "p", "e", "a", "k", " ", "2", "0", " ", "A">>, <<"C", "u", "r", "r", "e", "n", "t", " ", "c", "o", "n", "t", "i", "n", "u", "o", "u", "s", " ", "n", "/", "a", " ", "p", "e", "a", "k", " ", "2", "0", " ", "A">>>>,
     energy |-> <<<<"E", "n", "e", "r", "g", "y", " ", "C", "/", "1", "0", " ", "1", "8", " ", "W", "h">>, <<>>, <<"C", "/", "1", "0", " ", "1", "8", " ", "W", "h">>, <<"E", "n", "e", "r", "g", "y", " ", "C", "/", "1", "0", " ", "n", "/", "a">>>>,
     power |-> <<<<"P", "o", "w", "e", "r", " ", "c", "o", "n", "t", "i", "n", "u", "o", "u", "s", " ", "5", "0", " ", "W", " ", "p", "e", "a", "k", " ", "1", "0", "0", " ", "W">>, <<>>,
                 <<"c", "o", "n", "t", "i", "n", "u", "o", "u", "s", " ", "5", "0", " ", "W", " ", "p", "e", "a", "k", " ", "1", "0", "0", " ", "W">>, <<"P", "o", "w", "e", "r", " ", "c", "o", "n", "t", "i", "n", "u", "o", "u", "s", " ", "5", "0", " ", "W", " ", "p", "e", "a", "k", " ", "n", "/", "a">>>>,
     energy_density |->
         <<<<"E", "n", "e", "r", "g", "y", " ", "D", "e", "n", "s", "i", "t", "y", " ", "g", "r", "a", "v", "i", "m", "e", "t", "r", "i", "c", " ", "2", "5", "0", " ", "W", "h", "/", "k", "g", " ", "v", "o", "l", "u", "m", "e", "t", "r", "i", "c", " ", "7", "0", "0", " ", "W", "h", "/", "l">>, <<>>,
           <<"g", "r", "a", "v", "i", "m", "e", "t", "r", "i", "c", " ", "2", "5", "0", " ", "W", "h", "/", "k", "g", " ", "v", "o", "l", "u", "m", "e", "t", "r", "i", "c", " ", "7", "0", "0", " ", "W", "h", "/", "l">>,
           <<"E", "n", "e", "r", "g", "y", " ", "D", "e", "n", "s", "i", "t", "y", " ", "g", "r", "a", "v", "i", "m", "e", "t", "r", "i", "c", " ", "n", "/", "a", " ", "v", "o", "l", "u", "m", "e", "t", "r", "i", "c", " ", "7", "0", "0", " ", "W", "h", "/", "l">>>>,
     power_density |->
         <<<<"P", "o", "w", "e", "r", " ", "D", "e", "n", "s", "i", "t", "y", " ", "g", "r", "a", "v", "i", "m", "e", "t", "r", "i", "c", " ", "2", " ", "k", "W", "/", "k", "g", " ", "v", "o", "l", "u", "m", "e", "t", "r", "i", "c", " ", "5", " ", "k", "W", "/", "l">>, <<>>,
           <<"g", "r", "a", "v", "i", "m", "e", "t", "r", "i", "c", " ", "2", " ", "k", "W", "/", "k", "g", " ", "v", "o", "l", "u", "m", "e", "t", "r", "i", "c", " ", "5", " ", "k", "W", "/", "l">>,
           <<"P", "o", "w", "e", "r", " ", "D", "e", "n", "s", "i", "t", "y", " ", "g", "r", "a", "v", "i", "m", "e", "t", "r", "i", "c", " ", "2", " ", "k", "W", "/", "k", "g", " ", "v", "o", "l", "u", "m", "e", "t", "r", "i", "c", " ", "n", "/", "a">>>>,
     version |-> <<<<"B", "a", "t", "e", "m", "o", " ", "C", "e", "l", "l", " ", "M", "o", "d", "e", "l", " ", "V", "e", "r", "s", "i", "o", "n", " ", "1", ".", "2">>, <<>>>>,
     date |-> <<<<"R", "e", "l", "e", "a", "s", "e", " ", "D", "a", "t", "e", " ", "M", "a", "y", " ", "7", ",", " ", "2", "0", "2", "4">>, <<>>, <<"R", "e", "l", "e", "a", "s", "e", " ", "D", "a", "t", "e", " ", "M", "a", "y", " ", "3", "2", ",", " ", "2", "0", "2", "4">>>>,
     soc |-> <<<<"S", "t", "a", "t", "e", " ", "o", "f", " ", "C", "h", "a", "r", "g", "e", " ", "R", "a", "n", "g", "e", " ", "0", " ", Ellipsis, " ", "1", "0", "0", " ", "%">>, <<>>>>,
     current_range |-> <<<<"C", "u", "r", "r", "e", "n", "t", " ", "R", "a", "n", "g", "e", " ", "-", "1", "0", " ", "A", " ", "d", "i", "s", "c", "h", "a", "r", "g", "e", " ", Ellipsis, " ", "5", " ", "A", " ", "c", "h", "a", "r", "g", "e", " ", "(", "-", "2", " ", "C", " ", Ellipsis, " ", "1", " ", "C", ")">>, <<>>>>,
     voltage |-> <<<<"V", "o", "l", "t", "a", "g", "e", " ", "R", "a", "n", "g", "e", " ", "2", ".", "5", " ", Ellipsis, " ", "4", ".", "2", " ", "V">>, <<>>>>,
     temperature |-> <<<<"T", "e", "m", "p", "e", "r", "a", "t", "u", "r", "e", " ", "R", "a", "n", "g", "e", " ", "-", "2", "0", " ", Ellipsis, " ", "8", "0", " ", DegreeSign, "C">>, <<>>>>]

SlotNames == {PageSlots[k] : k \in 1..Len(PageSlots)}

\* the choices of one text per place with at most n deviations
RECURSIVE choices_within(_)
choices_within(n) ==
    IF n = 0 THEN {[sl \in SlotNames |-> 1]}
    ELSE LET less == choices_within(n - 1)
         IN less \cup UNION {{[ch EXCEPT ![sl] = v] : v \in 2..Len(SlotTexts[sl])} :
                                ch \in less, sl \in SlotNames}

PageChoices == choices_within(MaxDeviations)

\* the page of a choice: the h1, then one element with one text node for
\* every other place that is there
page_of(ch) ==
    LET RECURSIVE body_from(_)
        body_from(k) ==
            IF k > Len(PageSlots) THEN <<>>
            ELSE LET t == SlotTexts[PageSlots[k]][ch[PageSlots[k]]]
                 IN (IF t = <<>> THEN <<>> ELSE <<<<[kind |-> "text", s |-> t]>>>>)
                        \o body_from(k + 1)
        title == SlotTexts.h1[ch.h1]
    IN [h1 |-> IF title = <<>> THEN None ELSE Some(title), body |-> body_from(2)]

\* a URL with a slug, one without, one that urlparse rejects
PageUrls == {<<"h", "t", "t", "p", "s", ":", "/", "/", "h", "/", "a", "/">>, <<"h", "t", "t", "p", "s", ":", "/", "/", "h", "/">>, <<"h", "t", "t", "p", "s", ":", "/", "/", "[", "/", "a">>}

InitPage ==
    /\ pc = "call"
    /\ IdleSeg
    /\ IdleRange
    /\ IdleRun
    /\ IdlePages
    /\ IdleUpload
    /\ data = None
    /\ args \in {[html |-> page_of(ch), url |-> u, choice |-> ch] :
                    ch \in PageChoices, u \in PageUrls}
    /\ result = None

\* parse_cell_page(html, url): the record, or the ValueError of urlparse
ParseCellPage ==
    /\ pc = "call"
    /\ IF parse_cell_page_raises(args.html, args.url)
       THEN data' = None /\ pc' = "raise"
       ELSE data' = Some(parse_cell_page(args.html, args.url)) /\ pc' = "return"
    /\ UNCHANGED <<segVars, rangeVars, runVars, fnVars, pageVars, uploadVars>>

NextPage == ParseCellPage
SpecPage == InitPage /\ [][NextPage]_vars

---------------------------------------------------------------------------
(* Claim C14                                                              *)

\* the primary fields read from each place of the page
FieldsOf ==
    [h1 |-> {"name"},
     origin |-> {"cell_origin"},
     format |-> {"cell_format"},
     dimensions |-> {"dimensions_raw", "diameter_mm", "height_mm"},
     weight |-> {"weight_g"},
     capacity |-> {"nominal_capacity_Ah", "c10_capacity_Ah"},
     current |-> {"continuous_current_A", "peak_current_A"},
     energy |-> {"c10_energy_Wh"},
     power |-> {"continuous_power_W", "peak_power_W"},
     energy_density |-> {"energy_density_Wh_per_kg", "energy_density_Wh_per_l"},
     power_density |-> {"power_density_kW_per_kg", "power_density_kW_per_l"},
     version |-> {"cell_model_version"},
     date |-> {"cell_model_release_date"},
     soc |-> {"soc_min_pct", "soc_max_pct"},
     current_range |-> {"current_discharge_min_A", "current_charge_max_A",
                        "current_c_min", "current_c_max"},
     voltage |-> {"voltage_min_V", "voltage_max_V"},
     temperature |-> {"temp_min_C", "temp_max_C"}]

\* the fields that text v of place sl leaves without a label, a block, a
\* match or a numeral: all of an element that is not there and of a
\* section without its heading, the one with "n/a" otherwise
FailingFields(sl, v) ==
    IF v = 1 THEN {}
    ELSE IF SlotTexts[sl][v] = <<>> THEN FieldsOf[sl]
    ELSE IF sl = "origin" THEN {"cell_origin"}
    ELSE IF sl = "dimensions" THEN {"diameter_mm", "height_mm"}
    ELSE IF sl = "weight" THEN {"weight_g"}
    ELSE IF sl = "date" THEN {}
    ELSE IF v = 3 THEN FieldsOf[sl]
    ELSE IF sl = "capacity" THEN {"nominal_capacity_Ah"}
    ELSE IF sl = "current" THEN {"continuous_current_A"}
    ELSE IF sl = "energy" THEN {"c10_energy_Wh"}
    ELSE IF sl = "power" THEN {"peak_power_W"}
    ELSE IF sl = "energy_density" THEN {"energy_density_Wh_per_kg"}
    ELSE {"power_density_kW_per_l"}

\* the record of the complete page under the same URL
CompleteFields == primary_fields(page_of([sl \in SlotNames |-> 1]), args.url)

\* every failing field is absent, and every field of a place that has its
\* complete text has the value it has on the complete page
FieldsIndependent ==
    LET whole == CompleteFields
    IN /\ \A sl \in SlotNames : \A f \in FailingFields(sl, args.choice[sl]) :
              Get(data)[f] = None
       /\ \A sl \in SlotNames : args.choice[sl] = 1 =>
              \A f \in FieldsOf[sl] : Get(data)[f] = whole[f]

\* C14: for every document and source identifier parse_cell_page returns
\* a record and never raises; a field whose label is missing, whose block
\* cannot be segmented, whose pattern does not match or whose numeral does
\* not parse is absent, and that changes the value of no other primary
\* field.
C14_FieldIndependence ==
    /\ pc # "raise"
    /\ pc = "return" => FieldsIndependent

\* the same of the calls that return
C14_ReturnedIndependent == pc = "return" => FieldsIndependent

---------------------------------------------------------------------------
(* Claim C18                                                              *)

SectionSlots ==
    <<"capacity", "current", "energy", "power", "energy_density", "power_density">>

\* the blocks of the sections, as section_blocks names them
BlockNames ==
    <<"cap", "current", "energy", "power", "energy_density", "power_density">>

SectionLabels ==
    <<W_Capacity, W_Current, W_Energy, W_Power, W_EnergyDensity, W_PowerDensity>>

\* the normalized text of the page of the call
NormText == normalize_whitespace(soup_get_text(soup_of(args.html)))

\* the six headings are there, once each and in their order: every section
\* has its complete text or the one with "n/a" for a numeral
SixHeadings ==
    \A k \in 1..Len(SectionSlots) : args.choice[SectionSlots[k]] \in {1, 4}

\* one of the labels that end the Power Density block follows its heading
PowerDensityEnds ==
    LET t == NormText
        idx_from == find(t, W_PowerDensity, 0) + Len(W_PowerDensity)
    IN \E lbl \in {sp(W_ModelVersion), <<"#", "#">>, sp(W_Model)} :
           find(t, lbl, idx_from) # -1

\* the text of section k on the page
SectionText(k) == SlotTexts[SectionSlots[k]][args.choice[SectionSlots[k]]]

\* no two of the six blocks share a character: block k runs from the
\* first occurrence of its label for its length
BlocksDisjoint ==
    LET t == NormText
        blocks == section_blocks(t)
        from(k) == find(t, SectionLabels[k], 0)
        to(k) == from(k) + Len(Get(blocks[BlockNames[k]]))
    IN \A j, k \in 1..Len(SectionSlots) :
           j < k => (to(j) <= from(k) \/ to(k) <= from(j))

\* block k is the text of section k and nothing else
BlockIsSection(k) ==
    section_blocks(NormText)[BlockNames[k]] = Some(SectionText(k))

\* the pattern fields of section k have the values found in its text alone
FieldsFromSection(k) ==
    LET own == Some(SectionText(k))
        d == Get(data)
        val(prefix, field_unit) == parse_first_float(own, field_pattern(prefix, field_unit))
    IN CASE k = 1 -> /\ d.nominal_capacity_Ah = val(prefix_nominal, <<"A", "h">>)
                     /\ d.c10_capacity_Ah = val(prefix_C10, <<"A", "h">>)
         [] k = 2 -> /\ d.continuous_current_A = val(prefix_contin, <<"A">>)
                     /\ d.peak_current_A = val(prefix_peak, <<"A">>)
         [] k = 3 -> d.c10_energy_Wh = val(prefix_C10, <<"W", "h">>)
         [] k = 4 -> /\ d.continuous_power_W = val(prefix_contin, <<"W">>)
                     /\ d.peak_power_W = val(prefix_peak, <<"W">>)
         [] k = 5 -> /\ d.energy_density_Wh_per_kg
                            = val(prefix_gravi, <<"W", "h", "/", "k", "g">>)
                     /\ d.energy_density_Wh_per_l
                            = val(prefix_volumetric, <<"W", "h", "/", "l">>)
         [] OTHER -> /\ d.power_density_kW_per_kg
                            = val(prefix_gravi, <<"k", "W", "/", "k", "g">>)
                     /\ d.power_density_kW_per_l
                            = val(prefix_volumetric, <<"k", "W", "/", "l">>)

Isolated ==
    /\ BlocksDisjoint
    /\ \A k \in 1..Len(SectionSlots) : BlockIsSection(k)
    /\ \A k \in 1..Len(SectionSlots) : FieldsFromSection(k)

---------------------------------------------------------------------------
(* parse_cell_page called on one document after another                   *)

MaxCalls == 3

\* the documents of the calls: the complete page, the page without its
\* h1, the page whose nominal capacity is "n/a"
CallPages ==
    {page_of([sl \in SlotNames |-> 1]),
     page_of([sl \in SlotNames |-> IF sl = "h1" THEN 2 ELSE 1]),
     page_of([sl \in SlotNames |-> IF sl = "capacity" THEN 4 ELSE 1])}

\* a URL with a slug and one that urlparse rejects
CallUrls == {<<"h", "t", "t", "p", "s", ":", "/", "/", "h", "/", "a", "/">>, <<"h", "t", "t", "p", "s", ":", "/", "/", "[", "/", "a">>}

InitCalls ==
    /\ pc = "call"
    /\ IdleSeg
    /\ IdleRange
    /\ IdleRun
    /\ IdleFn
    /\ IdlePages
    /\ IdleUpload
    /\ data = None

\* the state after a call with outcome out
Called(html, url, out) ==
    /\ events' = Append(events, [html |-> html, url |-> url, out |-> out])
    /\ data' = IF out = None THEN data ELSE out
    /\ pc' = IF out = None THEN "raise" ELSE "return"

\* one call parse_cell_page(html, url); events keeps the arguments and the
\* outcome of every call, data the record returned last
CallParseCellPage(html, url) ==
    /\ Len(events) < MaxCalls
    /\ Called(html, url, IF parse_cell_page_raises(html, url) THEN None
                         ELSE Some(parse_cell_page(html, url)))
    /\ UNCHANGED <<segVars, rangeVars, urls, idx, cells, scrape_log, scrape_runs,
                   counters, pg_cells, fnVars, pageVars, uploadVars>>

NextCalls == \E html \in CallPages, url \in CallUrls : CallParseCellPage(html, url)
SpecCalls == InitCalls /\ [][NextCalls]_vars

---------------------------------------------------------------------------
(* Claim C15                                                              *)

SixPrimaries ==
    {"c10_capacity_Ah", "c10_energy_Wh", "peak_power_W", "peak_current_A",
     "nominal_capacity_Ah", "continuous_current_A"}

---------------------------------------------------------------------------
(* Claim C17                                                              *)

\* C17: for a page whose text contains "Temperature Range -20 ... 80 deg C"
\* (with the ellipsis and the degree sign), parse_cell_page, which calls
\* the range extractor with label "Temper" and unit "deg C", obtains
\* temp_min_C = -20.0 and temp_max_C = 80.0.
C17_TemperatureRange ==
    (pc = "return" /\ args.choice.temperature = 1) =>
        /\ Get(data).temp_min_C = Some(Rat(0 - 20, 1))
        /\ Get(data).temp_max_C = Some(Rat(80, 1))

---------------------------------------------------------------------------
(* Claim C19                                                              *)

\* the counter increments of iteration i: every increment in the loop is
\* followed at once by the log_result call with the counter's status
Increments(i) == CallsOf(i, "log_result")

\* the rows of scrape_log that iteration i wrote
RowsOf(i) == {k \in 1..Len(scrape_log) : scrape_log[k].i = i}

\* C19: in every run that reaches finish_scrape_run, each URL has
\* incremented exactly one of success_count, http_error_count,
\* parse_error_count, other_error_count and produced exactly one
\* scrape_log entry whose status matches that counter, so the four
\* counters sum to total_urls; failing storage and log calls included.
C19_RunAccounting ==
    pc = "done" =>
        /\ \A i \in 1..Len(urls) :
              /\ Cardinality(Increments(i)) = 1
              /\ Cardinality(RowsOf(i)) = 1
              /\ \A k \in Increments(i), r \in RowsOf(i) :
                     scrape_log[r].status = events[k].status
        /\ success_count + http_error_count + parse_error_count + other_error_count
               = Len(urls)

---------------------------------------------------------------------------
(* collect_all_cell_urls (src/scrape_urls.py): the loop over the listing  *)
(* pages of the site                                                      *)

\* the listing pages the site has, and the links on one of them
MaxPages == 2
MaxLinks == 2

\* the detail URLs the site exposes
DetailUrls == {<<"a">>, <<"a", "b">>, <<"b">>}

\* what the site answers to the request of a listing page: the request
\* fails, or a status code comes back, with the detail URLs that
\* extract_cell_urls_from_html finds in the body, in document order
Responses ==
    {[get |-> "RequestException", status_code |-> 0, page_urls |-> <<>>],
     [get |-> "Response", status_code |-> 404, page_urls |-> <<>>],
     [get |-> "Response", status_code |-> 500, page_urls |-> <<>>]}
    \cup {[get |-> "Response", status_code |-> 200, page_urls |-> us] :
             us \in SeqsOf(DetailUrls, 0, MaxLinks)}

\* build_listing_url(page): the product-page parameter of the URL, which
\* page 1 does not have
build_listing_url(p) == IF p <= 1 THEN None ELSE Some(p)

\* the answer to a listing URL.  Behind the last listing page the site
\* starts over: it has a page for every number, and finitely many URLs.
serve(pages, url) ==
    LET n == IF url = None THEN 1 ELSE Get(url)
    IN pages[((n - 1) % Len(pages)) + 1]

\* ord(c) of the characters of the detail URLs
code_point(c) == IF c = "a" THEN 97 ELSE 98

\* str < str: by code point, a prefix before its extensions
str_less(s, t) ==
    \/ \E k \in 1..Len(s) :
          /\ k <= Len(t)
          /\ \A j \in 1..(k - 1) : s[j] = t[j]
          /\ code_point(s[k]) < code_point(t[k])
    \/ (Len(s) < Len(t) /\ \A j \in 1..Len(s) : s[j] = t[j])

\* sorted(seen)
sorted(S) ==
    CHOOSE q \in [1..Cardinality(S) -> S] :
        \A j, k \in 1..Cardinality(S) : j < k => str_less(q[j], q[k])

\* the filter left out
new_urls_unfiltered(page_urls, seen_urls) == page_urls

\* [u for u in page_urls if u not in seen]
new_urls_of(page_urls, seen_urls) ==
    LET unseen(u) == u \notin seen_urls
    IN SelectSeq(page_urls, unseen)

InitCollect ==
    /\ pc = "loop"
    /\ IdleSeg
    /\ IdleRange
    /\ IdleRun
    /\ IdleFn
    /\ IdleUpload
    /\ data = None
    /\ site \in SeqsOf(Responses, 1, MaxPages)
    /\ page = 1
    /\ seen = {}
    /\ all_urls = <<>>

\* one pass of "while True": the request, the two breaks with the sort and
\* the return that follow them, or the new URLs added and the next page;
\* requests.get and raise_for_status raise out of the function
CollectPage ==
    /\ pc = "loop"
    /\ LET resp == serve(site, build_listing_url(page))
           new_urls == new_urls_of(resp.page_urls, seen)
       IN /\ events' = Append(events, [page |-> page, url |-> build_listing_url(page)])
          /\ IF resp.get = "RequestException"
             THEN pc' = "raise" /\ UNCHANGED <<page, seen, all_urls>>
             ELSE IF resp.status_code = 404
             THEN pc' = "return" /\ all_urls' = sorted(seen) /\ UNCHANGED <<page, seen>>
             ELSE IF resp.status_code >= 400
             THEN pc' = "raise" /\ UNCHANGED <<page, seen, all_urls>>
             ELSE IF new_urls = <<>>
             THEN pc' = "return" /\ all_urls' = sorted(seen) /\ UNCHANGED <<page, seen>>
             ELSE /\ seen' = seen \cup {new_urls[k] : k \in 1..Len(new_urls)}
                  /\ page' = page + 1
                  /\ UNCHANGED <<pc, all_urls>>
    /\ UNCHANGED <<segVars, rangeVars, data, urls, idx, cells, scrape_log,
                   scrape_runs, counters, pg_cells, fnVars, site, uploadVars>>

NextCollect == CollectPage
SpecCollect == InitCollect /\ [][NextCollect]_vars

\* the loop is not left waiting between two passes
FairSpecCollect == SpecCollect /\ WF_vars(CollectPage)

---------------------------------------------------------------------------
(* Claim C20                                                              *)

\* the detail URLs on listing page p of the site
UrlsOn(p) ==
    LET resp == serve(site, build_listing_url(p))
    IN {resp.page_urls[k] : k \in 1..Len(resp.page_urls)}

\* the detail URLs on the listing pages before p
UrlsBefore(p) == UNION {UrlsOn(q) : q \in 1..(p - 1)}

\* page p ends the listing: it returns 404 or has no URL that is not on
\* an earlier page
StopsAt(p) ==
    LET resp == serve(site, build_listing_url(p))
    IN resp.get = "Response"
         /\ (resp.status_code = 404
               \/ (resp.status_code = 200 /\ UrlsOn(p) \subseteq UrlsBefore(p)))

\* page p is passed: it comes back with at least one URL not seen before
Passes(p) ==
    LET resp == serve(site, build_listing_url(p))
    IN resp.get = "Response" /\ resp.status_code = 200
         /\ ~(UrlsOn(p) \subseteq UrlsBefore(p))

C20_Safe ==
    /\ \A k \in 1..Len(events) : events[k].page = k
    /\ Len(events) \in {page - 1, page}
    /\ \A p \in 1..(page - 1) : Passes(p)
    /\ seen = UrlsBefore(page)
    /\ Cardinality(seen) >= page - 1
    /\ pc = "return" =>
          /\ StopsAt(page)
          /\ Len(events) = page
          /\ Len(all_urls) = Cardinality(seen)
          /\ {all_urls[k] : k \in 1..Len(all_urls)} = seen

\* C20: collect_all_cell_urls requests the listing pages 1, 2, 3, ... in
\* order and stops at the first page that returns 404 or contributes no
\* URL not already seen; every page that does not stop the loop adds at
\* least one new URL to seen, so with finitely many detail URLs the loop
\* eventually ends; the returned list has each URL seen exactly once.
C20_Terminates == []C20_Safe /\ <>(pc \in {"return", "raise"})

\* three listing pages requested, two passed with new URLs, the third
\* (the first one over again) with none: the list of both URLs returned
C20_Witness ==
    /\ pc = "return"
    /\ page = 3
    /\ Len(site) = 2
    /\ seen = {<<"a", "b">>, <<"b">>}
    /\ all_urls = <<<<"a", "b">>, <<"b">>>>

---------------------------------------------------------------------------
(* upload_to_postgres: main with ensure_schema_and_tables, upsert_cells   *)
(* and import_runs_and_logs_recreate.  The SQLite tables are cells,       *)
(* scrape_runs and scrape_log; a row is a function from column names to   *)
(* Optional values, id and run_id are plain numbers, and a time stamp is  *)
(* an ordinal number.                                                     *)

\* the largest id of a row of the SQLite table scrape_runs
MaxRunId == 3
\* the largest number of rows of the SQLite table scrape_log
MaxLogs == 3

\* the columns of the INSERT INTO batemo.scrape_runs
run_columns ==
    {"started_at", "finished_at", "source_file", "total_urls",
     "success_count", "http_error_count", "parse_error_count",
     "other_error_count", "duration_sec"}

\* the columns of the INSERT INTO batemo.scrape_log besides run_id
log_columns ==
    {"url", "slug", "status", "http_status", "error_message", "scraped_at"}

\* a row init_run wrote: started_at and source_file set, the rest NULL
run_row(id) ==
    [c \in run_columns \cup {"id"} |->
        CASE c = "id" -> id
          [] c = "started_at" -> Some(id)
          [] c = "source_file" -> Some(<<"u">>)
          [] OTHER -> None]

\* a row log_result wrote for a run
log_row(id, run_id) ==
    [c \in log_columns \cup {"id", "run_id"} |->
        CASE c = "id" -> id
          [] c = "run_id" -> run_id
          [] c = "url" -> Some(<<"/", "a">>)
          [] c = "status" -> Some(<<"o", "k">>)
          [] c = "scraped_at" -> Some(id)
          [] OTHER -> None]

\* SELECT * FROM scrape_runs: the rows by ascending id; ids are unique
\* (PRIMARY KEY) and may have gaps
runs_with_ids(ids) ==
    [j \in 1..Cardinality(ids) |->
        run_row(CHOOSE i \in ids : Cardinality({h \in ids : h <= i}) = j)]

\* SELECT * FROM scrape_log: SQLite does not enforce the foreign key
\* unless asked to, so a run_id need not be the id of a run
logs_of_runs(run_ids) ==
    [k \in 1..Len(run_ids) |-> log_row(k, run_ids[k])]

\* SELECT * FROM cells
cells_of(recs) ==
    [k \in 1..Len(recs) |->
        [c \in ColumnSet \cup {"id"} |->
            IF c = "id" THEN Some(k) ELSE recs[k][c]]]

SourceCells ==
    LET recs == <<record(Some(<<"a">>), Some(<<"A">>), Some(<<"/", "a">>), None),
                  record(Some(<<"b">>), None, Some(<<"/", "b">>), None)>>
    IN {cells_of(SubSeq(recs, 1, n)) : n \in 0..Len(recs)}

\* the three tables of schema batemo and their sequences
pg_tables(cells_t, runs_t, log_t, seq) ==
    [cells |-> cells_t, scrape_runs |-> runs_t, scrape_log |-> log_t,
     seq |-> seq]

\* ensure_schema_and_tables: DROP SCHEMA ... CASCADE in mode "recreate",
\* then CREATE ... IF NOT EXISTS, which leaves existing tables as they are
ensure_schema_and_tables(tables, m) ==
    IF m = "recreate"
    THEN pg_tables(<<>>, <<>>, <<>>, [scrape_runs |-> 0, scrape_log |-> 0])
    ELSE tables

\* the first loop: one INSERT ... RETURNING id per row of runs_rows
insert_runs(tables, runs_rows) ==
    [tables EXCEPT
        !.scrape_runs = @ \o
            [j \in 1..Len(runs_rows) |->
                [c \in run_columns \cup {"id"} |->
                    IF c = "id" THEN tables.seq.scrape_runs + j
                    ELSE runs_rows[j][c]]],
        !.seq.scrape_runs = @ + Len(runs_rows)]

\* old ids kept as they are
run_id_map_kept(last_value, runs_rows) ==
    [old_id \in {runs_rows[j]["id"] : j \in 1..Len(runs_rows)} |-> old_id]

\* run_id_map[old_id] = new_id, a later row replacing an earlier one
run_id_map_of(last_value, runs_rows) ==
    [old_id \in {runs_rows[j]["id"] : j \in 1..Len(runs_rows)} |->
        last_value +
            (CHOOSE j \in 1..Len(runs_rows) :
                /\ runs_rows[j]["id"] = old_id
                /\ \A i \in (j + 1)..Len(runs_rows) : runs_rows[i]["id"] # old_id)]

\* the second loop: "continue" for a run_id the map does not have, one
\* INSERT with the mapped run_id for every other row
insert_logs(tables, run_id_map, logs_rows) ==
    LET mapped(l) == l["run_id"] \in DOMAIN run_id_map
        kept == SelectSeq(logs_rows, mapped)
    IN [tables EXCEPT
           !.scrape_log = @ \o
               [k \in 1..Len(kept) |->
                   [c \in log_columns \cup {"id", "run_id"} |->
                       CASE c = "id" -> tables.seq.scrape_log + k
                         [] c = "run_id" -> run_id_map[kept[k]["run_id"]]
                         [] OTHER -> kept[k][c]]],
           !.seq.scrape_log = @ + Len(kept)]

import_runs_and_logs_recreate(tables, runs_rows, logs_rows) ==
    insert_logs(insert_runs(tables, runs_rows),
                run_id_map_of(tables.seq.scrape_runs, runs_rows), logs_rows)

\* what an earlier upload left in schema batemo
EarlierUploads ==
    {pg_tables(<<>>, <<>>, <<>>, [scrape_runs |-> 0, scrape_log |-> 0]),
     import_runs_and_logs_recreate(
         pg_tables(upsert_cells(<<>>,
                       <<record(Some(<<"a">>), Some(<<"Z">>), Some(<<"/", "z">>),
                                Some([h1 |-> Some(<<"Z">>)]))>>),
                   <<>>, <<>>, [scrape_runs |-> 0, scrape_log |-> 0]),
         runs_with_ids({1}), logs_of_runs(<<1>>))}

\* the tables of schema batemo as one value
Tables == pg_tables(pg_cells, pg_scrape_runs, pg_scrape_log, pg_seq)

InitUpload ==
    /\ pc = "ensure_schema_and_tables"
    /\ IdleSeg
    /\ IdleRange
    /\ IdleFn
    /\ IdlePages
    /\ data = None
    /\ urls = <<>>
    /\ idx = 0
    /\ success_count = 0
    /\ http_error_count = 0
    /\ parse_error_count = 0
    /\ other_error_count = 0
    /\ events = <<>>
    /\ mode \in {"recreate", "upsert"}
    /\ cells \in SourceCells
    /\ scrape_runs \in {runs_with_ids(ids) : ids \in SUBSET (1..MaxRunId)}
    /\ scrape_log \in {logs_of_runs(rs) : rs \in SeqsOf(1..MaxRunId, 0, MaxLogs)}
    /\ \E t \in EarlierUploads :
          /\ pg_cells = t.cells
          /\ pg_scrape_runs = t.scrape_runs
          /\ pg_scrape_log = t.scrape_log
          /\ pg_seq = t.seq

\* main: ensure_schema_and_tables(conn_pg, args.mode) and its commit
EnsureSchemaAndTables ==
    /\ pc = "ensure_schema_and_tables"
    /\ pc' = "upsert_cells"
    /\ pg_cells' = ensure_schema_and_tables(Tables, mode).cells
    /\ pg_scrape_runs' = ensure_schema_and_tables(Tables, mode).scrape_runs
    /\ pg_scrape_log' = ensure_schema_and_tables(Tables, mode).scrape_log
    /\ pg_seq' = ensure_schema_and_tables(Tables, mode).seq
    /\ UNCHANGED <<segVars, rangeVars, data, urls, idx, cells, scrape_log,
                   scrape_runs, counters, events, fnVars, pageVars, mode>>

\* main: upsert_cells(conn_pg, cells_rows), in both modes
UpsertCells ==
    /\ pc = "upsert_cells"
    /\ pc' = "import_runs_and_logs"
    /\ pg_cells' = upsert_cells(pg_cells, cells)
    /\ UNCHANGED <<segVars, rangeVars, data, urls, idx, cells, scrape_log,
                   scrape_runs, counters, events, fnVars, pageVars, uploadVars>>

\* main, mode "recreate": import_runs_and_logs_recreate and its commit
ImportRunsAndLogs ==
    /\ pc = "import_runs_and_logs"
    /\ mode = "recreate"
    /\ pc' = "done"
    /\ pg_scrape_runs' =
           import_runs_and_logs_recreate(Tables, scrape_runs, scrape_log).scrape_runs
    /\ pg_scrape_log' =
           import_runs_and_logs_recreate(Tables, scrape_runs, scrape_log).scrape_log
    /\ pg_seq' = import_runs_and_logs_recreate(Tables, scrape_runs, scrape_log).seq
    /\ UNCHANGED <<segVars, rangeVars, data, urls, idx, cells, scrape_log,
                   scrape_runs, counters, pg_cells, events, fnVars, pageVars,
                   mode>>

\* main, mode "upsert": the else branch only prints
SkipRunsAndLogs ==
    /\ pc = "import_runs_and_logs"
    /\ mode # "recreate"
    /\ pc' = "done"
    /\ UNCHANGED <<segVars, rangeVars, data, urls, idx, cells, scrape_log,
                   scrape_runs, counters, pg_cells, events, fnVars, pageVars,
                   uploadVars>>

NextUpload ==
    EnsureSchemaAndTables \/ UpsertCells \/ ImportRunsAndLogs \/ SkipRunsAndLogs
SpecUpload == InitUpload /\ [][NextUpload]_vars

---------------------------------------------------------------------------
(* Claim C21                                                              *)

\* the values a row has in the given columns
Columns(r, cols) == [c \in cols |-> r[c]]

\* the rows of a table
RowsIn(t) == {t[k] : k \in 1..Len(t)}

\* the ids batemo.scrape_runs gives the source run old_id: the ids of its
\* rows that carry the values of that run
NewIds(old_id) ==
    {p["id"] : p \in
        {q \in RowsIn(pg_scrape_runs) :
            \E r \in RowsIn(scrape_runs) :
                /\ r["id"] = old_id
                /\ Columns(q, run_columns) = Columns(r, run_columns)}}

\* the source log row references a run that has a row
HasRun(l) == \E r \in RowsIn(scrape_runs) : r["id"] = l["run_id"]

\* the source log rows that reference a run, in the order they were read
LinkedLogs == SelectSeq(scrape_log, HasRun)

\* every source run has one row and one new id in the target
RunsImported ==
    /\ Len(pg_scrape_runs) = Len(scrape_runs)
    /\ \A r \in RowsIn(scrape_runs) : Cardinality(NewIds(r["id"])) = 1

\* the target log rows are the source log rows that reference a run, each
\* with the new id of that run
LogsRelinked ==
    /\ Len(pg_scrape_log) = Len(LinkedLogs)
    /\ \A k \in 1..Len(LinkedLogs) :
          /\ Columns(pg_scrape_log[k], log_columns)
                 = Columns(LinkedLogs[k], log_columns)
          /\ pg_scrape_log[k]["run_id"] \in NewIds(LinkedLogs[k]["run_id"])

\* two imported rows share a run exactly when their source rows did
SharingPreserved ==
    \A k1, k2 \in 1..Len(LinkedLogs) :
        k1 <= Len(pg_scrape_log) /\ k2 <= Len(pg_scrape_log) =>
            ((pg_scrape_log[k1]["run_id"] = pg_scrape_log[k2]["run_id"])
                <=> (LinkedLogs[k1]["run_id"] = LinkedLogs[k2]["run_id"]))

\* no target row carries the values of a source row without a run
OrphansSkipped ==
    \A l \in RowsIn(scrape_log) :
        ~HasRun(l) =>
            \A p \in RowsIn(pg_scrape_log) :
                Columns(p, log_columns) # Columns(l, log_columns)

\* every row of the SQLite table cells is in batemo.cells under its slug
CellsUpserted ==
    \A r \in RowsIn(cells) :
        \E p \in RowsIn(pg_cells) : Columns(p, ColumnSet) = Columns(r, ColumnSet)

\* what holds once main has run through
Uploaded ==
    pc = "done" =>
        /\ CellsUpserted
        /\ mode = "recreate" =>
              RunsImported /\ LogsRelinked /\ SharingPreserved /\ OrphansSkipped

\* mode "upsert" leaves batemo.scrape_runs and batemo.scrape_log alone
NothingTransferred ==
    mode = "upsert" =>
        /\ pg_scrape_runs' = pg_scrape_runs
        /\ pg_scrape_log' = pg_scrape_log

\* C21: after an upload in mode "recreate" every row of batemo.scrape_log
\* is a source row whose run has a row, with the new id of that run as its
\* run_id, so that two imported rows share a run if and only if their
\* source rows did; a source row whose run_id has no run row is not
\* inserted; in mode "upsert" no step changes batemo.scrape_runs or
\* batemo.scrape_log; in both modes every source cell is in batemo.cells.
C21_RunLogLinkage == []Uploaded /\ [][NothingTransferred]_vars

\* a finished upload in mode "recreate" in which a run got an id other
\* than its source id, two imported rows share a run, and a source row
\* without a run was skipped
C21_Witness ==
    /\ pc = "done"
    /\ mode = "recreate"
    /\ \E r \in RowsIn(scrape_runs) : r["id"] \notin NewIds(r["id"])
    /\ \E k1, k2 \in 1..Len(pg_scrape_log) :
          k1 # k2 /\ pg_scrape_log[k1]["run_id"] = pg_scrape_log[k2]["run_id"]
    /\ \E l \in RowsIn(scrape_log) : ~HasRun(l)
    /\ Len(pg_scrape_log) < Len(scrape_log)

===========================================================================
